---- MODULE Spec2Model ----
(***************************************************************************)
(* Model of the spaceway scenario drivers (the test-*.py scripts).  Each   *)
(* driver purges old state, builds the engine, spawns one engine process   *)
(* per participant, writes a fixed script of commands to the processes'    *)
(* stdin with a settle sleep after each, extracts identifiers from the     *)
(* captured logs, evaluates its assertions, scores them and tears the      *)
(* processes down in a finally block.                                      *)
(*                                                                         *)
(* The engine is external: what it writes to a log is an input of the      *)
(* driver.  The model resolves such an input at the step where the driver  *)
(* first consults it (find_in_log, an assertion) and remembers it for as   *)
(* long as a later step of the script reads it again.                      *)
(***************************************************************************)
EXTENDS Integers, Sequences, FiniteSets, TLC

VARIABLES
    scen,       \* which driver script runs
    pc,         \* position of the driver: cleanup, build, openlogs, spawn, body, teardown, done
    ip,         \* index of the next client to spawn / next step of the script
    tpc,        \* position inside the finally block: none, term, wait, kill, close, end
    tix,        \* index of the client the finally block is working on
    proc,       \* client -> "none" | "alive" | "exited"   (the Popen object's process)
    handle,     \* client -> "none" | "w" | "r" | "closed" (the driver's handle on the log file)
    elapsed,    \* client -> seconds slept by the driver since the client was spawned (capped)
    termSent,   \* client -> terminate() was called on it
    killSent,   \* client -> kill() was called on it
    written,    \* client -> a command line was written to its stdin
    ids,        \* identifier variable -> "unset" | "present" | "absent"
    setupNone,  \* an identifier extraction of the setup steps returned None
    memo,       \* log facts already consulted and still read by a later step
    passed,     \* tests_passed (the number of check marks printed)
    failed,     \* the number of failure marks printed (test_results entries that are False)
    total,      \* tests_total / len(test_results) (the number of marks printed)
    evaluated,  \* assertion numbers evaluated so far, in order
    verdict,    \* banner printed by the scoring step ("none" before it)
    rc,         \* value main() is about to return; the exit code once pc = "done" (-1: none yet)
    exc,        \* exception that ended the run of the script ("none" if none)
    sendFail,   \* a failed write was caught and reported
    crashes,    \* number of engine processes that exited on their own
    last,       \* what the last step of the script did: [kind, c, bad]
    settle,     \* seconds the driver slept in its last call of run_command
    since,      \* the last command written and the seconds of time.sleep since: [cmd, extra]
    buf,        \* a client's captured log: the sequence of lines its engine has written
    sink,       \* the driver's handle on that log: "none" | "w" | "r" | "closed"
    prev,       \* the read of the log before the last one: [op, pat, res, n, len]
    cur,        \* the last read of the log
    kick,       \* the removed member's decrypt markers around the kick: [phase, markers,
                \* atKick, read, ok]
    thr,        \* the thread setup of test-channel-kick.py: [pc, made, seen, id1, id2, used1,
                \* used2]; seen is the number of creations in the log at the second find
    iso,        \* two driver runs side by side: [run, files, stale, lost]
    conf,       \* the removal confirmations in the remover's log and the assertion
                \* on them: [phase, lines, ok]
    runner,     \* a TestRunner of test-automation.py: [total, passed, results, arg, call]
    cli,        \* a SpacewayClient object and the processes and log handles it has
                \* made: [process, log_handle, procs, handles, op, raised]
    perm        \* Charlie's log around his 'channel create' in test-permissions.py and
                \* the checks on it: [phase, log, cmdAt, denied, ok]

vars == <<scen, pc, ip, tpc, tix, proc, handle, elapsed, termSent, killSent, written,
          ids, setupNone, memo, passed, failed, total, evaluated, verdict, rc, exc, sendFail,
          crashes, last, settle, since, buf, sink, prev, cur, kick, thr, iso, conf,
          runner, cli, perm>>

\* the variables of the driver script
driver == <<scen, pc, ip, tpc, tix, proc, handle, elapsed, termSent, killSent, written,
            ids, setupNone, memo, passed, failed, total, evaluated, verdict, rc, exc, sendFail,
            crashes, last, settle, since>>

\* the variables the steps of the driver script leave alone: the content of a log
\* is an input of the script
other == <<buf, sink, prev, cur, kick, thr, iso, conf, runner, cli, perm>>

----------------------------------------------------------------------------
(* Bounds of the model *)

\* at most this many engine processes exit on their own in one run
MaxCrashes == 1

(* Program constants *)

\* time.sleep(3) after the clients are spawned
WarmUp == 3

----------------------------------------------------------------------------
(* The scenarios and their participants *)

Scenarios == {"e2ee", "bidirectional", "kick_member", "three_members",
              "three_members_kick", "four_members_kick", "channel_kick",
              "permissions", "space_modes"}

AllClients == {"Alice", "Bob", "Charlie", "Dave"}

\* the participants of a scenario, in the order the script spawns them
Clients(s) ==
    CASE s \in {"e2ee", "bidirectional", "kick_member"} -> <<"Alice", "Bob">>
      [] s \in {"three_members", "three_members_kick", "channel_kick", "permissions"}
            -> <<"Alice", "Bob", "Charlie">>
      [] s = "four_members_kick" -> <<"Alice", "Bob", "Charlie", "Dave">>
      [] s = "space_modes" -> <<"Alice">>

ClientSet(s) == {Clients(s)[i] : i \in 1..Len(Clients(s))}

\* e2ee spawns inside the try block through SpacewayClient.start();
\* the other scripts call Popen before the try block is entered
SpawnsInsideTry(s) == s = "e2ee"

\* run_command of test-permissions.py catches the failed write; the others do not
SendCatches(s) == s = "permissions"

\* test-permissions.py has except KeyboardInterrupt / except Exception around the body
BodyCatches(s) == s = "permissions"

\* how the finally block stops the clients:
\*   "batch": terminate all, then wait for each, kill all on the first timeout
\*   "each" : per client terminate, wait, kill on timeout
TeardownStyle(s) == IF s \in {"e2ee", "permissions"} THEN "each" ELSE "batch"

----------------------------------------------------------------------------
(* Script steps *)

Step(op, c, cmd, wait, uses, cond, id, pat, fatal, n) ==
    [op |-> op, c |-> c, cmd |-> cmd, wait |-> wait, uses |-> uses, cond |-> cond,
     id |-> id, pat |-> pat, fatal |-> fatal, n |-> n]

\* time.sleep(w)
Sleep(w) == Step("sleep", "", "", w, {}, {}, "", "", FALSE, 0)
\* run_command(c, cmd, wait=w); uses: identifiers formatted into the text;
\* cond: identifiers the enclosing if-statements require to be present
Cmd(c, cmd, w, uses, cond) == Step("cmd", c, cmd, w, uses, cond, "", "", FALSE, 0)
\* id = find_in_log(c's log, pat), or flag = check_log(c's log, pat)
Find(c, id, pat, cond) == Step("find", c, "", 0, {}, cond, id, pat, FALSE, 0)
\* if not id [or not id2]: print failure; return 1
Require(idset) == Step("require", "", "", 0, idset, {}, "", "", TRUE, 0)
\* return return_code
Return == Step("return", "", "", 0, {}, {}, "", "", FALSE, 0)
\* client.start() of SpacewayClient
Start(c) == Step("start", c, "", 0, {}, {}, "", "", FALSE, 0)
\* id[:16] in a print: raises TypeError when id is None
Deref(id) == Step("deref", "", "", 0, {id}, {}, id, "", FALSE, 0)
\* x_log.close() for every client
CloseLogs == Step("closelogs", "", "", 0, {}, {}, "", "", FALSE, 0)
\* x_log.close(); x_log = open(path, 'r')
Reopen(c) == Step("reopen", c, "", 0, {}, {}, "", "", FALSE, 0)
\* tests_passed = 0; tests_total = n
InitScore(n) == Step("initscore", "", "", 0, {}, {}, "", "", FALSE, n)
\* the n-th assertion of the script
Assertion(n) == Step("assert", "", "", 0, {}, {}, "", "", FALSE, n)
\* the scoring if/elif/else and its return
Score == Step("score", "", "", 0, {}, {}, "", "", FALSE, 0)

----------------------------------------------------------------------------
(* Script fragments shared by the dictionary-style scripts (run_command +    *)
(* find_in_log), transcribed from test-kick-member.py                         *)

UserId(c) ==
    CASE c = "Bob" -> "bob_id" [] c = "Charlie" -> "charlie_id" [] c = "Dave" -> "dave_id"

\* keypackage publish for every participant
PublishAll(s) == [i \in 1..Len(Clients(s)) |-> Cmd(Clients(s)[i], "keypackage publish", 5, {}, {})]

\* space create .. network and the identifiers extracted from Alice's log;
\* only the space id is checked
CreateSpace == <<
    Cmd("Alice", "space create", 3, {}, {}),
    Find("Alice", "space_id", "Created space", {}),
    Require({"space_id"}),
    Cmd("Alice", "context", 2, {}, {}),
    Find("Alice", "full_space_id", "Space:", {}),
    Cmd("Alice", "invite create", 3, {}, {}),
    Find("Alice", "invite", "Created invite code", {}),
    Cmd("Alice", "network", 2, {}, {}),
    Find("Alice", "peer_id", "Peer ID", {}) >>

\* connect, join, whoami of one joining participant
Join(c, joinWait, whoWait) == <<
    Cmd(c, "connect", 3, {"peer_id"}, {}),
    Cmd(c, "join", joinWait, {"full_space_id", "invite"}, {}),
    Cmd(c, "whoami", whoWait, {}, {}),
    Find(c, UserId(c), "User ID", {}) >>

\* member add <user id> followed by the wait for the Welcome message
AddMember(c, extra) == <<
    Cmd("Alice", "member add", 5, {UserId(c)}, {}),
    Sleep(extra) >>

\* channel create, thread create, first send of Alice
FirstMessage == <<
    Cmd("Alice", "channel create", 3, {}, {}),
    Cmd("Alice", "thread create", 3, {}, {}),
    Cmd("Alice", "send", 4, {}, {}) >>

\* mutation of SelectThread: the selects are written whatever was found
SelectThreadUnguarded(c) == <<
    Find(c, "channel_id", "channel row", {}),
    Cmd(c, "channel", 2, {"channel_id"}, {}),
    Cmd(c, "threads", 2, {}, {}),
    Find(c, "thread_id", "thread row", {}),
    Cmd(c, "thread", 2, {"thread_id"}, {}) >>

\* the steps under "if channel_id:" / "if thread_id:"
SelectThread(c) == <<
    Find(c, "channel_id", "channel row", {}),
    Cmd(c, "channel", 2, {"channel_id"}, {"channel_id"}),
    Cmd(c, "threads", 2, {}, {"channel_id"}),
    Find(c, "thread_id", "thread row", {"channel_id"}),
    Cmd(c, "thread", 2, {"thread_id"}, {"channel_id", "thread_id"}) >>

\* space <id>, channels, then the conditional selects
Navigate(c) ==
    << Cmd(c, "space", 2, {"space_id"}, {}), Cmd(c, "channels", 2, {}, {}) >> \o SelectThread(c)

\* tests_passed = 0; tests_total = n; the n assertions; the scoring step
Assertions(n) == <<InitScore(n)>> \o [i \in 1..n |-> Assertion(i)] \o <<Score>>

----------------------------------------------------------------------------
(* The scripts: the statements of each main() from the first statement of   *)
(* its try block to its last return                                         *)

ScriptKickMember ==
    <<Sleep(3)>> \o PublishAll("kick_member") \o CreateSpace
    \o Join("Bob", 5, 2) \o AddMember("Bob", 4)
    \o FirstMessage \o <<Sleep(5)>>
    \o Navigate("Bob")
    \o << Cmd("Bob", "send", 4, {}, {}), Sleep(7),
          Cmd("Alice", "kick", 7, {"bob_id"}, {}),
          Cmd("Alice", "send", 4, {}, {}), Sleep(10),
          CloseLogs >>
    \o Assertions(6)

ScriptBidirectional ==
    <<Sleep(3)>> \o PublishAll("bidirectional") \o CreateSpace
    \o Join("Bob", 5, 2) \o AddMember("Bob", 4)
    \o FirstMessage \o <<Sleep(5)>>
    \o Navigate("Bob")
    \o << Cmd("Bob", "send", 4, {}, {}), Sleep(7),
          Cmd("Alice", "send", 4, {}, {}), Sleep(10),
          CloseLogs >>
    \o Assertions(5)

ScriptThreeMembers ==
    <<Sleep(3)>> \o PublishAll("three_members") \o CreateSpace
    \o Join("Bob", 5, 2) \o Join("Charlie", 5, 2)
    \o AddMember("Bob", 15) \o AddMember("Charlie", 8)
    \o FirstMessage \o <<Sleep(10), CloseLogs>>
    \o Assertions(5)

ScriptThreeMembersKick ==
    <<Sleep(3)>> \o PublishAll("three_members_kick") \o CreateSpace
    \o Join("Bob", 5, 2) \o Join("Charlie", 5, 2)
    \o AddMember("Bob", 4) \o AddMember("Charlie", 4)
    \o FirstMessage \o <<Sleep(5)>>
    \o Navigate("Bob") \o Navigate("Charlie")
    \o << Cmd("Bob", "send", 4, {}, {}),
          Cmd("Charlie", "send", 4, {}, {}), Sleep(7),
          Cmd("Alice", "kick", 7, {"bob_id"}, {}),
          Cmd("Alice", "send", 4, {}, {}), Sleep(10),
          CloseLogs >>
    \o Assertions(8)

ScriptFourMembersKick ==
    <<Sleep(3)>> \o PublishAll("four_members_kick") \o CreateSpace
    \o Join("Bob", 5, 2) \o Join("Charlie", 5, 2) \o Join("Dave", 8, 3)
    \o AddMember("Bob", 4) \o AddMember("Charlie", 4) \o AddMember("Dave", 4)
    \o FirstMessage \o <<Sleep(5)>>
    \o Navigate("Bob") \o Navigate("Charlie") \o Navigate("Dave")
    \o << Cmd("Bob", "send", 4, {}, {}),
          Cmd("Charlie", "send", 4, {}, {}),
          Cmd("Dave", "send", 4, {}, {}), Sleep(7),
          Cmd("Alice", "kick", 7, {"bob_id"}, {}),
          Cmd("Alice", "send", 4, {}, {}), Sleep(10),
          CloseLogs >>
    \o Assertions(10)

\* select channel ch and thread th
Select(c, ch, th) == << Cmd(c, "channel", 2, {ch}, {}), Cmd(c, "thread", 2, {th}, {}) >>

\* one post followed by the propagation sleep
Post(c, extra) == << Cmd(c, "send", 4, {}, {}), Sleep(extra) >>

ScriptChannelKick ==
    <<Sleep(3)>> \o PublishAll("channel_kick") \o CreateSpace
    \o Join("Bob", 5, 2) \o Join("Charlie", 5, 2)
    \o AddMember("Bob", 4) \o AddMember("Charlie", 4)
    \o << Cmd("Alice", "channel create", 3, {}, {}),
          Cmd("Alice", "channel create", 3, {}, {}),
          Cmd("Alice", "channels", 2, {}, {}),
          Find("Alice", "channel1_id", "channel row general", {}),
          Find("Alice", "channel2_id", "channel row private", {}),
          Require({"channel1_id", "channel2_id"}),
          Cmd("Bob", "space", 2, {"space_id"}, {}), Cmd("Bob", "channels", 2, {}, {}),
          Cmd("Charlie", "space", 2, {"space_id"}, {}), Cmd("Charlie", "channels", 2, {}, {}),
          Cmd("Alice", "channel", 2, {"channel1_id"}, {}),
          Cmd("Alice", "thread create", 3, {}, {}),
          Find("Alice", "thread1_id", "Created thread", {}),
          Cmd("Alice", "channel", 2, {"channel2_id"}, {}),
          Cmd("Alice", "thread create", 3, {}, {}),
          Find("Alice", "thread2_id", "Created thread", {}) >>
    \o <<Cmd("Alice", "space", 2, {"space_id"}, {})>> \o Select("Alice", "channel1_id", "thread1_id")
    \o <<Cmd("Bob", "space", 2, {"space_id"}, {})>> \o Select("Bob", "channel1_id", "thread1_id")
    \o <<Cmd("Charlie", "space", 2, {"space_id"}, {})>> \o Select("Charlie", "channel1_id", "thread1_id")
    \o Post("Alice", 5) \o Post("Bob", 4) \o Post("Charlie", 4)
    \o Select("Alice", "channel2_id", "thread2_id")
    \o Select("Bob", "channel2_id", "thread2_id")
    \o Select("Charlie", "channel2_id", "thread2_id")
    \o Post("Alice", 5) \o Post("Bob", 4) \o Post("Charlie", 4)
    \o << Cmd("Alice", "channel", 2, {"channel2_id"}, {}),
          Cmd("Alice", "kick", 7, {"charlie_id"}, {}),
          Cmd("Alice", "thread", 2, {"thread2_id"}, {}) >>
    \o Post("Alice", 5)
    \o Select("Bob", "channel2_id", "thread2_id") \o Post("Bob", 5)
    \o Select("Alice", "channel1_id", "thread1_id") \o Post("Alice", 5)
    \o Select("Bob", "channel1_id", "thread1_id") \o Post("Bob", 5)
    \o Select("Charlie", "channel2_id", "thread2_id") \o <<Sleep(3)>>
    \o Select("Charlie", "channel1_id", "thread1_id") \o <<Sleep(3)>>
    \o <<CloseLogs>>
    \o Assertions(10)

\* Join of test-permissions.py: the space select and the id[:16] print follow whoami
JoinPermissions(c) ==
    Join(c, 5, 2) \o << Cmd(c, "space", 3, {"space_id"}, {}), Deref(UserId(c)) >>

ScriptPermissions ==
    <<Sleep(3)>> \o PublishAll("permissions") \o CreateSpace
    \o JoinPermissions("Bob") \o JoinPermissions("Charlie")
    \o AddMember("Bob", 10) \o AddMember("Charlie", 8)
    \o << Cmd("Alice", "channel create", 3, {}, {}), Reopen("Alice"), Assertion(1),
          Cmd("Charlie", "channel create", 3, {}, {}), Reopen("Charlie"), Assertion(2),
          Sleep(5),
          Cmd("Charlie", "invite create", 5, {}, {}),
          Find("Charlie", "charlie_invite", "Created invite code", {}),
          Assertion(3),
          Cmd("Alice", "channel", 3, {}, {}), Sleep(3),
          Cmd("Alice", "thread create", 4, {}, {}),
          Cmd("Alice", "send", 5, {}, {}), Sleep(15),
          CloseLogs,
          Assertion(4),
          Score, Sleep(3), Return >>

ScriptSpaceModes ==
    << Sleep(3),
       Cmd("Alice", "keypackage publish", 5, {}, {}),
       Cmd("Alice", "space create", 3, {}, {}),
       Find("Alice", "mls_space_id", "Created space", {}),
       Require({"mls_space_id"}),
       Find("Alice", "has_mls_group", "MLS-encrypted space", {}),
       Cmd("Alice", "space create --mode lightweight", 3, {}, {}),
       Find("Alice", "light_space_id", "Created space: LightweightTest", {}),
       Require({"light_space_id"}),
       Find("Alice", "has_lightweight", "LIGHTWEIGHT space", {}),
       Cmd("Alice", "space create --mode mls", 3, {}, {}),
       Find("Alice", "explicit_mls_id", "Created space: ExplicitMLS", {}),
       Require({"explicit_mls_id"}),
       Find("Alice", "has_explicit_mls", "MLS-encrypted space", {}),
       Cmd("Alice", "spaces", 2, {}, {}),
       CloseLogs >>
    \o Assertions(6)

\* test-e2ee.py: SpacewayClient.start() inside the try block, no identifier is checked,
\* five printed checks and no counter
ScriptE2ee ==
    << Start("Alice"), Start("Bob"), Sleep(2),
       Cmd("Alice", "keypackage publish", 5, {}, {}),
       Cmd("Bob", "keypackage publish", 5, {}, {}),
       Cmd("Alice", "space create", 3, {}, {}),
       Find("Alice", "space_id", "Created space", {}),
       Cmd("Alice", "context", 2, {}, {}),
       Find("Alice", "full_space_id", "Space:", {}),
       Cmd("Alice", "invite create", 3, {}, {}),
       Find("Alice", "invite", "Created invite code", {}),
       Cmd("Alice", "network", 2, {}, {}),
       Find("Alice", "peer_id", "Peer ID", {}) >>
    \o Join("Bob", 5, 2) \o AddMember("Bob", 3)
    \o FirstMessage \o <<Sleep(3)>>
    \o <<Cmd("Bob", "space list", 2, {}, {})>> \o Navigate("Bob")
    \o Post("Bob", 3) \o Post("Alice", 3)
    \o [i \in 1..5 |-> Assertion(i)] \o <<Score>>

Script(s) ==
    CASE s = "e2ee" -> ScriptE2ee
      [] s = "bidirectional" -> ScriptBidirectional
      [] s = "kick_member" -> ScriptKickMember
      [] s = "three_members" -> ScriptThreeMembers
      [] s = "three_members_kick" -> ScriptThreeMembersKick
      [] s = "four_members_kick" -> ScriptFourMembersKick
      [] s = "channel_kick" -> ScriptChannelKick
      [] s = "permissions" -> ScriptPermissions
      [] s = "space_modes" -> ScriptSpaceModes

----------------------------------------------------------------------------
(* Assertions.  A fact is what an assertion reads from a log: a substring   *)
(* test on the content, or the number of 'Decrypted MLS message' lines.     *)

CountFacts == {"alice_decrypts", "bob_decrypts", "charlie_decrypts", "dave_decrypts"}

\* the facts the n-th assertion of script s reads
AssertFacts(s, n) ==
    CASE s = "kick_member" ->
           (CASE n = 1 -> {"bob_got_msg1"}
              [] n = 2 -> {"alice_got_msg2"}
              [] n = 3 -> {"bob_decrypts", "alice_decrypts"}
              [] n = 4 -> {"log_removed_user", "log_keys_rotated", "log_cant_decrypt"}
              [] n = 5 -> {"bob_got_after_kick"}
              [] n = 6 -> {"bob_decrypts"})
      [] s \in {"bidirectional", "e2ee"} ->
           (CASE n = 1 -> {"bob_decrypts"}
              [] n = 2 -> {"bob_got_hello"}
              [] n = 3 -> {"alice_decrypts"}
              [] n = 4 -> {"alice_got_reply"}
              [] n = 5 -> {"bob_got_perfect"})
      [] s = "three_members" ->
           (CASE n = 1 -> {"bob_decrypts"}
              [] n = 2 -> {"charlie_decrypts"}
              [] n = 3 -> {"bob_got_message"}
              [] n = 4 -> {"charlie_got_message"}
              [] n = 5 -> {"bob_got_message", "charlie_got_message"})
      [] s = "three_members_kick" ->
           (CASE n = 1 -> {"bob_got_msg1"}
              [] n = 2 -> {"alice_got_msg2"}
              [] n = 3 -> {"alice_got_msg3"}
              [] n = 4 -> {"bob_decrypts", "alice_decrypts", "charlie_decrypts"}
              [] n = 5 -> {"log_removed_user", "log_keys_rotated", "log_cant_decrypt"}
              [] n = 6 -> {"bob_got_after_kick"}
              [] n = 7 -> {"charlie_got_after_kick"}
              [] n = 8 -> {"bob_decrypts", "charlie_decrypts"})
      [] s = "four_members_kick" ->
           (CASE n = 1 -> {"bob_got_msg1"}
              [] n = 2 -> {"alice_got_msg2"}
              [] n = 3 -> {"alice_got_msg3"}
              [] n = 4 -> {"alice_got_msg4"}
              [] n = 5 -> {"bob_decrypts", "alice_decrypts", "charlie_decrypts", "dave_decrypts"}
              [] n = 6 -> {"log_removed_user", "log_keys_rotated"}
              [] n = 7 -> {"bob_got_after_kick"}
              [] n = 8 -> {"charlie_got_after_kick"}
              [] n = 9 -> {"dave_got_after_kick"}
              [] n = 10 -> {"bob_decrypts", "charlie_decrypts", "dave_decrypts"})
      [] s = "channel_kick" ->
           (CASE n = 1 -> {"charlie_got_ch1_alice_initial", "charlie_got_ch1_bob"}
              [] n = 2 -> {"charlie_got_ch2_alice_initial", "charlie_got_ch2_bob"}
              [] n = 3 -> {"charlie_got_ch2_after_kick_alice"}
              [] n = 4 -> {"charlie_got_ch2_after_kick_bob"}
              [] n = 5 -> {"charlie_got_ch1_after_kick_alice"}
              [] n = 6 -> {"charlie_got_ch1_after_kick_bob"}
              [] n = 7 -> {"bob_got_ch2_after_kick"}
              [] n = 8 -> {"bob_got_ch1_after_kick"}
              [] n = 9 -> {"log_removed_user", "log_keys_rotated"}
              [] n = 10 -> {"charlie_decrypts"})
      [] s = "permissions" ->
           (CASE n = 1 -> {"alice_created_channel"}
              [] n = 2 -> {"charlie_denied", "charlie_created_channel"}
              [] n = 3 -> {}
              [] n = 4 -> {"bob_decrypts", "charlie_decrypts"})
      [] s = "space_modes" ->
           (CASE n = 2 -> {"mls_in_log"}
              [] n = 6 -> {"mls_name_in_log"}
              [] OTHER -> {})

\* the n-th assertion of script s, on the facts f and the identifiers idv.
\* (space_modes 2 and 6 are substring tests on a log in which the patterns
\* 'Created space: ExplicitMLS (' / 'Created space: LightweightTest (' matched
\* when the identifier was extracted: the match puts the substring in the log.)
AssertHolds(s, n, f, idv) ==
    CASE s = "kick_member" ->
           (CASE n = 1 -> f["bob_got_msg1"]
              [] n = 2 -> f["alice_got_msg2"]
              [] n = 3 -> f["bob_decrypts"] >= 1 /\ f["alice_decrypts"] >= 1
              [] n = 4 -> f["log_removed_user"] \/ f["log_keys_rotated"] \/ f["log_cant_decrypt"]
              [] n = 5 -> ~f["bob_got_after_kick"]
              [] n = 6 -> f["bob_decrypts"] <= 4)
      [] s \in {"bidirectional", "e2ee"} ->
           (CASE n = 1 -> f["bob_decrypts"] >= 3
              [] n = 2 -> f["bob_got_hello"]
              [] n = 3 -> f["alice_decrypts"] >= 1
              [] n = 4 -> f["alice_got_reply"]
              [] n = 5 -> f["bob_got_perfect"])
      [] s = "three_members" ->
           (CASE n = 1 -> f["bob_decrypts"] >= 3
              [] n = 2 -> f["charlie_decrypts"] >= 3
              [] n = 3 -> f["bob_got_message"]
              [] n = 4 -> f["charlie_got_message"]
              [] n = 5 -> f["bob_got_message"] /\ f["charlie_got_message"])
      [] s = "three_members_kick" ->
           (CASE n = 1 -> f["bob_got_msg1"]
              [] n = 2 -> f["alice_got_msg2"]
              [] n = 3 -> f["alice_got_msg3"]
              [] n = 4 -> f["bob_decrypts"] >= 3 /\ f["alice_decrypts"] >= 2
                          /\ f["charlie_decrypts"] >= 3
              [] n = 5 -> f["log_removed_user"] \/ f["log_keys_rotated"] \/ f["log_cant_decrypt"]
              [] n = 6 -> ~f["bob_got_after_kick"]
              [] n = 7 -> f["charlie_got_after_kick"]
              [] n = 8 -> f["bob_decrypts"] <= 5 /\ f["charlie_decrypts"] >= 4)
      [] s = "four_members_kick" ->
           (CASE n = 1 -> f["bob_got_msg1"]
              [] n = 2 -> f["alice_got_msg2"]
              [] n = 3 -> f["alice_got_msg3"]
              [] n = 4 -> f["alice_got_msg4"]
              [] n = 5 -> f["bob_decrypts"] >= 4 /\ f["alice_decrypts"] >= 3
                          /\ f["charlie_decrypts"] >= 4 /\ f["dave_decrypts"] >= 4
              [] n = 6 -> f["log_removed_user"] \/ f["log_keys_rotated"]
              [] n = 7 -> ~f["bob_got_after_kick"]
              [] n = 8 -> f["charlie_got_after_kick"]
              [] n = 9 -> f["dave_got_after_kick"]
              [] n = 10 -> f["bob_decrypts"] <= 6 /\ f["charlie_decrypts"] >= 5
                           /\ f["dave_decrypts"] >= 5)
      [] s = "channel_kick" ->
           (CASE n = 1 -> f["charlie_got_ch1_alice_initial"] /\ f["charlie_got_ch1_bob"]
              [] n = 2 -> f["charlie_got_ch2_alice_initial"] /\ f["charlie_got_ch2_bob"]
              [] n = 3 -> ~f["charlie_got_ch2_after_kick_alice"]
              [] n = 4 -> ~f["charlie_got_ch2_after_kick_bob"]
              [] n = 5 -> f["charlie_got_ch1_after_kick_alice"]
              [] n = 6 -> f["charlie_got_ch1_after_kick_bob"]
              [] n = 7 -> f["bob_got_ch2_after_kick"]
              [] n = 8 -> f["bob_got_ch1_after_kick"]
              [] n = 9 -> f["log_removed_user"] \/ f["log_keys_rotated"]
              [] n = 10 -> f["charlie_decrypts"] >= 6 /\ f["charlie_decrypts"] <= 10)
      [] s = "permissions" ->
           (CASE n = 1 -> f["alice_created_channel"]
              [] n = 2 -> f["charlie_denied"] \/ ~f["charlie_created_channel"]
              [] n = 3 -> idv["charlie_invite"] = "present"
              [] n = 4 -> f["bob_decrypts"] > 0 /\ f["charlie_decrypts"] > 0)
      [] s = "space_modes" ->
           (CASE n = 1 -> idv["mls_space_id"] = "present"
              [] n = 2 -> idv["has_mls_group"] = "present" \/ f["mls_in_log"]
                          \/ idv["explicit_mls_id"] = "present"
              [] n = 3 -> idv["light_space_id"] = "present"
              [] n = 4 -> idv["has_lightweight"] = "present"
              [] n = 5 -> idv["explicit_mls_id"] = "present"
              [] n = 6 -> f["mls_name_in_log"] \/ idv["light_space_id"] = "present"
                          \/ idv["explicit_mls_id"] = "present")


\* the identifier variables the n-th assertion of script s reads
AssertIds(s, n) ==
    CASE s = "permissions" /\ n = 3 -> {"charlie_invite"}
      [] s = "space_modes" /\ n = 1 -> {"mls_space_id"}
      [] s = "space_modes" /\ n = 2 -> {"has_mls_group", "explicit_mls_id"}
      [] s = "space_modes" /\ n = 3 -> {"light_space_id"}
      [] s = "space_modes" /\ n = 4 -> {"has_lightweight"}
      [] s = "space_modes" /\ n = 5 -> {"explicit_mls_id"}
      [] s = "space_modes" /\ n = 6 -> {"light_space_id", "explicit_mls_id"}
      [] OTHER -> {}

\* the facts the scoring step reads: test-e2ee.py decides its banner on four of
\* its five checks again, the other scripts on tests_passed
ScoreFacts(s) ==
    IF s = "e2ee" THEN {"alice_decrypts", "bob_decrypts", "bob_got_hello", "alice_got_reply"}
    ELSE {}

\* Values a decrypt count is drawn from: for every comparison a script makes on the
\* count, a value on each side of it.
CountValues(s, x) ==
    CASE s = "kick_member" /\ x = "bob_decrypts" -> {0, 1, 4, 5}
      [] s = "kick_member" /\ x = "alice_decrypts" -> {0, 1}
      [] s \in {"bidirectional", "e2ee"} /\ x = "bob_decrypts" -> {2, 3}
      [] s \in {"bidirectional", "e2ee"} /\ x = "alice_decrypts" -> {0, 1}
      [] s = "three_members" -> {2, 3}
      [] s = "three_members_kick" /\ x = "bob_decrypts" -> {2, 3, 5, 6}
      [] s = "three_members_kick" /\ x = "alice_decrypts" -> {1, 2}
      [] s = "three_members_kick" /\ x = "charlie_decrypts" -> {2, 3, 4}
      [] s = "four_members_kick" /\ x = "bob_decrypts" -> {3, 4, 6, 7}
      [] s = "four_members_kick" /\ x = "alice_decrypts" -> {2, 3}
      [] s = "four_members_kick" /\ x \in {"charlie_decrypts", "dave_decrypts"} -> {3, 4, 5}
      [] s = "channel_kick" -> {5, 6, 10, 11}
      [] s = "permissions" -> {0, 1}
      [] OTHER -> {0}

\* the valuations of the facts F that agree with what was consulted before
Valuations(s, F, known) ==
    { f \in UNION { { [x \in F |-> IF x \in CountFacts THEN fc[x] ELSE fb[x]] :
                        fb \in [F \ CountFacts -> BOOLEAN] } :
                    fc \in [F \cap CountFacts -> UNION {CountValues(s, x) : x \in CountFacts}] } :
        \A x \in F : /\ x \in CountFacts => f[x] \in CountValues(s, x)
                     /\ x \in DOMAIN known => f[x] = known[x] }

----------------------------------------------------------------------------
(* Scoring: the if/elif/else at the end of each main()                      *)

\* mutation of Banner: the success banner is printed from the threshold on
BannerFromThreshold(s, p, tot, f) ==
    CASE s = "three_members_kick" -> IF p >= 6 THEN "SUCCESS" ELSE "TEST FAILED"
      [] s \in {"four_members_kick", "channel_kick"} -> IF p >= 7 THEN "SUCCESS" ELSE "TEST FAILED"
      [] OTHER -> IF p = tot THEN "SUCCESS" ELSE "TEST FAILED"

\* mutation of Banner: the two-party scripts report success without the reply
BannerOneWay(s, p, tot, f) ==
    CASE s = "e2ee" ->
            IF f["bob_decrypts"] >= 3 /\ f["bob_got_hello"] THEN "SUCCESS" ELSE "Some tests failed"
      [] s = "bidirectional" -> IF p >= tot - 1 THEN "SUCCESS" ELSE "Some tests failed"
      [] OTHER -> IF p = tot THEN "SUCCESS" ELSE "TEST FAILED"

\* the banner the scoring step prints
Banner(s, p, tot, f) ==
    CASE s = "kick_member" ->
            IF p = tot THEN "SUCCESS" ELSE IF p >= 4 THEN "PARTIAL SUCCESS" ELSE "TEST FAILED"
      [] s = "three_members" ->
            IF p = tot THEN "SUCCESS" ELSE IF p >= 3 THEN "PARTIAL SUCCESS" ELSE "TEST FAILED"
      [] s = "three_members_kick" ->
            IF p = tot THEN "SUCCESS" ELSE IF p >= 6 THEN "PARTIAL SUCCESS" ELSE "TEST FAILED"
      [] s \in {"four_members_kick", "channel_kick"} ->
            IF p = tot THEN "SUCCESS" ELSE IF p >= 7 THEN "PARTIAL SUCCESS" ELSE "TEST FAILED"
      [] s = "bidirectional" ->
            IF p = tot THEN "SUCCESS" ELSE "Some tests failed"
      [] s = "space_modes" ->
            IF p >= 5 THEN "SUCCESS" ELSE "TEST FAILED"
      [] s = "permissions" ->
            IF p = tot THEN "ALL TESTS PASSED" ELSE "PARTIAL SUCCESS"
      [] s = "e2ee" ->
            IF f["alice_decrypts"] >= 1 /\ f["bob_decrypts"] >= 3
               /\ f["bob_got_hello"] /\ f["alice_got_reply"]
            THEN "SUCCESS" ELSE "Some tests failed"

\* the value main() returns after the banner, as the exit code sys.exit makes of it;
\* test-e2ee.py returns nothing and does not call sys.exit: its exit code is 0
ReturnCode(s, banner) ==
    CASE s = "e2ee" -> 0
      [] s = "permissions" -> IF banner = "ALL TESTS PASSED" THEN 0 ELSE 1
      [] OTHER -> IF banner \in {"SUCCESS", "PARTIAL SUCCESS"} THEN 0 ELSE 1

\* exit code when main() returns because the build failed
BuildFailedCode(s) == IF s = "e2ee" THEN 0 ELSE 1

\* exit code when exception e leaves the try block
ExceptionCode(s, e) ==
    IF BodyCatches(s) THEN 1
    ELSE IF e = "KeyboardInterrupt" THEN 130 ELSE 1

\* test-e2ee.py and test-permissions.py count a check when it is made;
\* the other scripts set tests_total before the first check
CountsPerAssert(s) == s \in {"e2ee", "permissions"}

----------------------------------------------------------------------------
(* Liveness of the script's local variables.  An identifier or a fact that  *)
(* no later statement reads is dropped from the state.                      *)

IdNames == {"space_id", "full_space_id", "invite", "peer_id", "bob_id", "charlie_id",
            "dave_id", "channel_id", "thread_id", "channel1_id", "channel2_id",
            "thread1_id", "thread2_id", "charlie_invite", "mls_space_id", "has_mls_group",
            "light_space_id", "has_lightweight", "explicit_mls_id", "has_explicit_mls"}

\* what step st reads
StepIds(s, st) ==
    IF st.op = "assert" THEN AssertIds(s, st.n) ELSE st.uses \cup st.cond

\* the checks on the message sent after the kick, and the checks of the round
\* trip of test-bidirectional.py; the locals that hold them stay in scope until
\* main() returns
BoundaryFacts(s) ==
    CASE s = "three_members_kick" -> {"bob_got_after_kick", "charlie_got_after_kick"}
      [] s = "bidirectional" -> {"bob_got_hello", "bob_decrypts", "alice_got_reply"}
      [] s = "four_members_kick" ->
            {"bob_got_after_kick", "charlie_got_after_kick", "dave_got_after_kick"}
      [] s = "space_modes" -> {"mls_name_in_log"}
      [] OTHER -> {}

StepFacts(s, st) ==
    CASE st.op = "assert" -> AssertFacts(s, st.n)
      [] st.op = "score" -> ScoreFacts(s) \cup BoundaryFacts(s)
      [] OTHER -> {}

\* a find on the same log with the same pattern reads what the earlier find decided
SamePattern(a, b) == a.op = "find" /\ b.op = "find" /\ a.c = b.c /\ a.pat = b.pat

LiveIdsTable ==
    [s \in Scenarios |->
        [i \in 1..(Len(Script(s)) + 1) |->
            UNION { StepIds(s, Script(s)[j]) : j \in i..Len(Script(s)) }
            \cup { Script(s)[j].id : j \in { k \in 1..(i-1) :
                     \E m \in i..Len(Script(s)) : SamePattern(Script(s)[k], Script(s)[m]) } } ] ]

LiveFactsTable ==
    [s \in Scenarios |->
        [i \in 1..(Len(Script(s)) + 1) |->
            UNION { StepFacts(s, Script(s)[j]) : j \in i..Len(Script(s)) } ] ]

\* the identifiers / facts still read from step i on
LiveIds(s, i) == LiveIdsTable[s][i]
LiveFacts(s, i) == LiveFactsTable[s][i]

PruneIds(idv, s, i) == [x \in IdNames |-> IF x \in LiveIds(s, i) THEN idv[x] ELSE "unset"]

PruneFacts(f, s, i) == [x \in (DOMAIN f) \cap LiveFacts(s, i) |-> f[x]]

NoIds == [x \in IdNames |-> "unset"]
NoFacts == [x \in {} |-> FALSE]

----------------------------------------------------------------------------
(* Helpers of the actions *)

\* the identifiers the setup steps extract (space create .. whoami)
SetupIds == {"space_id", "full_space_id", "invite", "peer_id", "bob_id", "charlie_id",
             "dave_id", "mls_space_id", "light_space_id", "explicit_mls_id"}

\* mutation of Advance: the sleep is not performed
AdvanceNoSleep(e, w) == e

\* time.sleep(w) seen from a client spawned e seconds ago (counted up to the warm-up)
Advance(e, w) == IF e + w >= WarmUp THEN WarmUp ELSE e + w

\* every spawned client is w seconds older
Slept(w) == [c \in AllClients |-> IF proc[c] = "none" THEN elapsed[c] ELSE Advance(elapsed[c], w)]

Did(kind, c, bad) == [kind |-> kind, c |-> c, bad |-> bad]

Merge(f, g) == [x \in (DOMAIN f) \cup (DOMAIN g) |-> IF x \in DOMAIN g THEN g[x] ELSE f[x]]

NumClients == Len(Clients(scen))

\* the current statement of the script
Cur == Script(scen)[ip]

AtStep(op) == pc = "body" /\ Cur.op = op

\* the enclosing if-statements let the statement run
CondHolds(st) == \A x \in st.cond : ids[x] = "present"

\* control moves to statement i; locals nothing reads any more are dropped
Goto(i, idv, f) ==
    /\ ip' = i
    /\ ids' = PruneIds(idv, scen, i)
    /\ memo' = PruneFacts(f, scen, i)

\* the try block is left (return or exception): the finally block starts
EnterTeardown(code, e) ==
    /\ pc' = "teardown"
    /\ tpc' = "term"
    /\ tix' = 1
    /\ rc' = code
    /\ exc' = e
    /\ ids' = NoIds
    /\ memo' = NoFacts
    /\ ip' = ip

\* the finally block is done: main() returns, the driver exits
Exit == pc' = "done" /\ tpc' = "end" /\ tix' = tix

Machine == <<proc, handle, elapsed, termSent, killSent, written>>
Tally == <<passed, failed, total, evaluated, verdict>>

----------------------------------------------------------------------------
(* The driver before its try block *)

\* a read of the log: op is none, find, check or count
Rd(op, pat, res, n, len) == [op |-> op, pat |-> pat, res |-> res, n |-> n, len |-> len]

NoRead == Rd("none", "", "", 0, 0)

\* no log is looked at
LogIdle ==
    /\ buf = << >>
    /\ sink = "none"
    /\ prev = NoRead
    /\ cur = NoRead

\* the removed member's markers are not followed
KickIdle == kick = [phase |-> "idle", markers |-> 0, atKick |-> -1, read |-> -1, ok |-> FALSE]

\* the thread setup is not followed
ThreadIdle ==
    thr = [pc |-> "idle", made |-> 0, seen |-> 0, id1 |-> "unset", id2 |-> "unset",
           used1 |-> "unset", used2 |-> "unset"]

\* one run only
IsoIdle == iso = [run |-> << >>, files |-> {}, stale |-> {}, lost |-> {}]

\* the removal confirmations are not followed
ConfirmIdle == conf = [phase |-> "idle", lines |-> {}, ok |-> FALSE]

\* TestRunner.__init__: nothing counted, no result line
RunnerIdle == runner = [total |-> 0, passed |-> 0, results |-> << >>, arg |-> "", call |-> "none"]

\* SpacewayClient.__init__: self.process = None, self.log_handle = None
ClientIdle ==
    cli = [process |-> 0, log_handle |-> 0, procs |-> << >>, handles |-> << >>,
           op |-> "init", raised |-> FALSE]

\* Charlie's log is not followed
PermIdle == perm = [phase |-> "idle", log |-> << >>, cmdAt |-> 0, denied |-> FALSE, ok |-> FALSE]

OtherIdle ==
    /\ LogIdle /\ KickIdle /\ ThreadIdle /\ IsoIdle /\ ConfirmIdle /\ RunnerIdle /\ ClientIdle
    /\ PermIdle

\* the driver before its first statement, running one of the scripts S
DriverInit(S) ==
    /\ scen \in S
    /\ pc = "cleanup"
    /\ ip = 1
    /\ tpc = "none"
    /\ tix = 0
    /\ proc = [c \in AllClients |-> "none"]
    /\ handle = [c \in AllClients |-> "none"]
    /\ elapsed = [c \in AllClients |-> 0]
    /\ termSent = [c \in AllClients |-> FALSE]
    /\ killSent = [c \in AllClients |-> FALSE]
    /\ written = [c \in AllClients |-> FALSE]
    /\ ids = NoIds
    /\ setupNone = FALSE
    /\ memo = NoFacts
    /\ passed = 0
    /\ failed = 0
    /\ total = 0
    /\ evaluated = << >>
    /\ verdict = "none"
    /\ rc = -1
    /\ exc = "none"
    /\ sendFail = FALSE
    /\ crashes = 0
    /\ last = Did("init", "", {})
    /\ settle = 0
    /\ since = [cmd |-> "", extra |-> 0]

Init == DriverInit(Scenarios) /\ OtherIdle

\* os.system('rm -rf ...'): the artifacts of earlier runs are purged
Cleanup ==
    /\ pc = "cleanup"
    /\ pc' = "build"
    /\ last' = Did("cleanup", "", {})
    /\ UNCHANGED <<scen, settle, since, other, ip, tpc, tix, Machine, ids, setupNone, memo, Tally, rc, exc,
                   sendFail, crashes>>

\* the build succeeds (or the binary exists); test-e2ee.py constructs its two
\* SpacewayClient objects and enters its try block, the others open the logs
BuildOk ==
    /\ pc = "build"
    /\ pc' = IF SpawnsInsideTry(scen) THEN "body" ELSE "openlogs"
    /\ last' = Did("build", "", {})
    /\ UNCHANGED <<scen, settle, since, other, ip, tpc, tix, Machine, ids, setupNone, memo, Tally, rc, exc,
                   sendFail, crashes>>

\* the build fails: 'Build failed!' and main() returns
BuildFails ==
    /\ pc = "build"
    /\ pc' = "done"
    /\ rc' = BuildFailedCode(scen)
    /\ last' = Did("buildfail", "", {})
    /\ UNCHANGED <<scen, settle, since, other, ip, tpc, tix, Machine, ids, setupNone, memo, Tally, exc,
                   sendFail, crashes>>

\* x_log = open(path, 'w') for every participant
OpenLogs ==
    /\ pc = "openlogs"
    /\ pc' = "spawn"
    /\ ip' = 1
    /\ handle' = [c \in AllClients |-> IF c \in ClientSet(scen) THEN "w" ELSE handle[c]]
    /\ last' = Did("open", "", {})
    /\ UNCHANGED <<scen, settle, since, other, tpc, tix, proc, elapsed, termSent, killSent, written, ids,
                   setupNone, memo, Tally, rc, exc, sendFail, crashes>>

\* subprocess.Popen(...) of the next participant; after the last one the try
\* block is entered
Spawn ==
    /\ pc = "spawn"
    /\ proc' = [proc EXCEPT ![Clients(scen)[ip]] = "alive"]
    /\ IF ip < NumClients THEN pc' = pc /\ ip' = ip + 1
                          ELSE pc' = "body" /\ ip' = 1
    /\ last' = Did("spawn", Clients(scen)[ip], {})
    /\ UNCHANGED <<scen, settle, since, other, tpc, tix, handle, elapsed, termSent, killSent, written, ids,
                   setupNone, memo, Tally, rc, exc, sendFail, crashes>>

\* subprocess.Popen(...) raises OSError outside any try block: the driver dies
SpawnFails ==
    /\ pc = "spawn"
    /\ pc' = "done"
    /\ rc' = 1
    /\ exc' = "OSError"
    /\ last' = Did("raise", Clients(scen)[ip], {})
    /\ UNCHANGED <<scen, settle, since, other, ip, tpc, tix, Machine, ids, setupNone, memo, Tally,
                   sendFail, crashes>>

\* Ctrl-C while the participants are being spawned, outside any try block:
\* the uncaught KeyboardInterrupt ends the driver with exit code 130
InterruptSpawn ==
    /\ pc = "spawn"
    /\ pc' = "done"
    /\ rc' = 130
    /\ exc' = "KeyboardInterrupt"
    /\ last' = Did("interrupt", "", {})
    /\ UNCHANGED <<scen, settle, since, other, ip, tpc, tix, Machine, ids, setupNone, memo, Tally,
                   sendFail, crashes>>

\* mutation of InterruptBody: the interrupt ends the driver at once, no finally block
InterruptBodyNoFinally ==
    /\ pc = "body"
    /\ pc' = "done"
    /\ rc' = 130
    /\ exc' = "KeyboardInterrupt"
    /\ last' = Did("interrupt", "", {})
    /\ UNCHANGED <<scen, settle, since, other, ip, tpc, tix, Machine, ids, setupNone, memo, Tally,
                   sendFail, crashes>>

\* Ctrl-C inside the try block
InterruptBody ==
    /\ pc = "body"
    /\ EnterTeardown(ExceptionCode(scen, "KeyboardInterrupt"), "KeyboardInterrupt")
    /\ last' = Did("interrupt", "", {})
    /\ UNCHANGED <<scen, settle, since, other, Machine, setupNone, Tally, sendFail, crashes>>

\* an engine process exits on its own
Crash ==
    /\ pc \in {"spawn", "body"}
    /\ crashes < MaxCrashes
    /\ \E c \in ClientSet(scen) :
          /\ proc[c] = "alive"
          /\ proc' = [proc EXCEPT ![c] = "exited"]
    /\ crashes' = crashes + 1
    /\ UNCHANGED <<scen, settle, since, other, pc, ip, tpc, tix, handle, elapsed, termSent, killSent, written,
                   ids, setupNone, memo, Tally, rc, exc, sendFail, last>>

----------------------------------------------------------------------------
(* The statements of the try block *)

\* an if-statement on an identifier skips the statement
StepSkipped ==
    /\ pc = "body"
    /\ Cur.op \in {"cmd", "find"}
    /\ ~CondHolds(Cur)
    /\ Goto(ip + 1, ids, memo)
    /\ last' = Did("skip", Cur.c, {})
    /\ UNCHANGED <<scen, settle, since, other, pc, tpc, tix, Machine, setupNone, Tally, rc, exc, sendFail, crashes>>

\* time.sleep(w)
StepSleep ==
    /\ AtStep("sleep")
    /\ elapsed' = Slept(Cur.wait)
    /\ Goto(ip + 1, ids, memo)
    /\ last' = Did("sleep", "", {})
    /\ since' = [since EXCEPT !.extra = @ + Cur.wait]
    /\ UNCHANGED <<scen, settle, other, pc, tpc, tix, proc, handle, termSent, killSent, written,
                   setupNone, Tally, rc, exc, sendFail, crashes>>

\* SpacewayClient.start(): open the log, Popen, time.sleep(3)
StepStart ==
    /\ AtStep("start")
    /\ handle' = [handle EXCEPT ![Cur.c] = "w"]
    /\ proc' = [proc EXCEPT ![Cur.c] = "alive"]
    /\ elapsed' = [c \in AllClients |->
                     IF c = Cur.c \/ proc[c] # "none" THEN Advance(elapsed[c], WarmUp)
                     ELSE elapsed[c]]
    /\ Goto(ip + 1, ids, memo)
    /\ last' = Did("start", Cur.c, {})
    /\ since' = [since EXCEPT !.extra = @ + WarmUp]
    /\ UNCHANGED <<scen, settle, other, pc, tpc, tix, termSent, killSent, written,
                   setupNone, Tally, rc, exc, sendFail, crashes>>

\* SpacewayClient.start(): the log is opened, Popen raises OSError
StepStartFails ==
    /\ AtStep("start")
    /\ handle' = [handle EXCEPT ![Cur.c] = "w"]
    /\ EnterTeardown(ExceptionCode(scen, "OSError"), "OSError")
    /\ last' = Did("raise", Cur.c, {})
    /\ UNCHANGED <<scen, settle, since, other, proc, elapsed, termSent, killSent, written,
                   setupNone, Tally, sendFail, crashes>>

\* mutation of StepCmd: the command is written and flushed, the settle sleep is left out
StepCmdNoSettle ==
    /\ AtStep("cmd")
    /\ CondHolds(Cur)
    /\ proc[Cur.c] = "alive"
    /\ written' = [written EXCEPT ![Cur.c] = TRUE]
    /\ Goto(ip + 1, ids, memo)
    /\ last' = Did("cmd", Cur.c, {x \in Cur.uses : ids[x] = "absent"})
    /\ settle' = 0
    /\ since' = [cmd |-> Cur.cmd, extra |-> 0]
    /\ UNCHANGED <<scen, other, pc, tpc, tix, proc, handle, elapsed, termSent, killSent,
                   setupNone, Tally, rc, exc, sendFail, crashes>>

\* run_command / send_command to a live process: write, flush, time.sleep(wait)
StepCmd ==
    /\ AtStep("cmd")
    /\ CondHolds(Cur)
    /\ proc[Cur.c] = "alive"
    /\ written' = [written EXCEPT ![Cur.c] = TRUE]
    /\ elapsed' = Slept(Cur.wait)
    /\ Goto(ip + 1, ids, memo)
    /\ last' = Did("cmd", Cur.c, {x \in Cur.uses : ids[x] = "absent"})
    /\ settle' = Cur.wait
    /\ since' = [cmd |-> Cur.cmd, extra |-> 0]
    /\ UNCHANGED <<scen, other, pc, tpc, tix, proc, handle, termSent, killSent,
                   setupNone, Tally, rc, exc, sendFail, crashes>>

\* run_command of test-permissions.py to an exited process: BrokenPipeError is
\* caught and printed; the sleep is inside the try and is skipped
StepSendCaught ==
    /\ AtStep("cmd")
    /\ CondHolds(Cur)
    /\ proc[Cur.c] = "exited"
    /\ SendCatches(scen)
    /\ sendFail' = TRUE
    /\ Goto(ip + 1, ids, memo)
    /\ last' = Did("sendfail", Cur.c, {})
    /\ settle' = 0
    /\ UNCHANGED <<scen, since, other, pc, tpc, tix, Machine, setupNone, Tally, rc, exc, crashes>>

\* run_command / send_command of the other scripts to an exited process:
\* BrokenPipeError leaves the function and the try block
StepSendRaises ==
    /\ AtStep("cmd")
    /\ CondHolds(Cur)
    /\ proc[Cur.c] = "exited"
    /\ ~SendCatches(scen)
    /\ EnterTeardown(ExceptionCode(scen, "BrokenPipeError"), "BrokenPipeError")
    /\ last' = Did("raise", Cur.c, {})
    /\ settle' = 0
    /\ UNCHANGED <<scen, since, other, Machine, setupNone, Tally, sendFail, crashes>>

\* an earlier search of the same log for the same pattern matched: the log only
\* grows, so this search matches too
PriorMatch ==
    \E k \in 1..(ip - 1) : /\ SamePattern(Script(scen)[k], Cur)
                           /\ ids[Script(scen)[k].id] = "present"

\* id = find_in_log(log, pattern) / flag = check_log(log, pattern): what the
\* engine wrote is an input
StepFind ==
    /\ AtStep("find")
    /\ CondHolds(Cur)
    /\ \E v \in {"present", "absent"} :
          /\ PriorMatch => v = "present"
          /\ Goto(ip + 1, [ids EXCEPT ![Cur.id] = v], memo)
          /\ setupNone' = (setupNone \/ (Cur.id \in SetupIds /\ v = "absent"))
          /\ last' = Did("find", Cur.c, IF v = "absent" THEN {Cur.id} ELSE {})
    /\ UNCHANGED <<scen, settle, since, other, pc, tpc, tix, Machine, Tally, rc, exc, sendFail, crashes>>

\* if not id: ... return 1   (the identifier is there)
StepRequirePasses ==
    /\ AtStep("require")
    /\ \A x \in Cur.uses : ids[x] = "present"
    /\ Goto(ip + 1, ids, memo)
    /\ last' = Did("require", "", {})
    /\ UNCHANGED <<scen, settle, since, other, pc, tpc, tix, Machine, setupNone, Tally, rc, exc, sendFail, crashes>>

\* if not id: print failure; return 1
StepRequireFails ==
    /\ AtStep("require")
    /\ \E x \in Cur.uses : ids[x] # "present"
    /\ EnterTeardown(1, "none")
    /\ last' = Did("requirefail", "", {x \in Cur.uses : ids[x] # "present"})
    /\ UNCHANGED <<scen, settle, since, other, Machine, setupNone, Tally, sendFail, crashes>>

\* print(... id[:16] ...)
StepDeref ==
    /\ AtStep("deref")
    /\ ids[Cur.id] = "present"
    /\ Goto(ip + 1, ids, memo)
    /\ last' = Did("deref", "", {})
    /\ UNCHANGED <<scen, settle, since, other, pc, tpc, tix, Machine, setupNone, Tally, rc, exc, sendFail, crashes>>

\* print(... id[:16] ...) with id = None: TypeError
StepDerefRaises ==
    /\ AtStep("deref")
    /\ ids[Cur.id] # "present"
    /\ EnterTeardown(ExceptionCode(scen, "TypeError"), "TypeError")
    /\ last' = Did("raise", "", {Cur.id})
    /\ UNCHANGED <<scen, settle, since, other, Machine, setupNone, Tally, sendFail, crashes>>

\* x_log.close() for every participant
StepCloseLogs ==
    /\ AtStep("closelogs")
    /\ handle' = [c \in AllClients |-> IF c \in ClientSet(scen) /\ handle[c] # "none"
                                       THEN "closed" ELSE handle[c]]
    /\ Goto(ip + 1, ids, memo)
    /\ last' = Did("closelogs", "", {})
    /\ UNCHANGED <<scen, settle, since, other, pc, tpc, tix, proc, elapsed, termSent, killSent, written,
                   setupNone, Tally, rc, exc, sendFail, crashes>>

\* x_log.close(); x_log = open(path, 'r')
StepReopen ==
    /\ AtStep("reopen")
    /\ handle' = [handle EXCEPT ![Cur.c] = "r"]
    /\ Goto(ip + 1, ids, memo)
    /\ last' = Did("reopen", Cur.c, {})
    /\ UNCHANGED <<scen, settle, since, other, pc, tpc, tix, proc, elapsed, termSent, killSent, written,
                   setupNone, Tally, rc, exc, sendFail, crashes>>

----------------------------------------------------------------------------
(* The assertion phase *)

\* tests_passed = 0; tests_total = n
StepInitScore ==
    /\ AtStep("initscore")
    /\ passed' = 0
    /\ failed' = 0
    /\ total' = Cur.n
    /\ Goto(ip + 1, ids, memo)
    /\ last' = Did("initscore", "", {})
    /\ UNCHANGED <<scen, settle, since, other, pc, tpc, tix, Machine, setupNone, evaluated, verdict, rc, exc,
                   sendFail, crashes>>

\* mutation of StepAssert: a failed assertion ends the script with return 1
StepAssertAbortsOnFailure ==
    /\ AtStep("assert")
    /\ \E f \in Valuations(scen, AssertFacts(scen, Cur.n), memo) :
          IF AssertHolds(scen, Cur.n, f, ids)
          THEN /\ passed' = passed + 1
               /\ failed' = failed
               /\ Goto(ip + 1, ids, Merge(memo, f))
               /\ UNCHANGED <<pc, tpc, tix, rc, exc>>
          ELSE /\ passed' = passed
               /\ failed' = failed + 1
               /\ EnterTeardown(1, "none")
    /\ total' = IF CountsPerAssert(scen) THEN total + 1 ELSE total
    /\ evaluated' = Append(evaluated, Cur.n)
    /\ last' = Did("assert", "", {})
    /\ UNCHANGED <<scen, settle, since, other, Machine, setupNone, verdict, sendFail, crashes>>

\* mutation of StepAssert: the else branch that prints a warning counts as passed
StepAssertCountsWarning ==
    /\ AtStep("assert")
    /\ \E f \in Valuations(scen, AssertFacts(scen, Cur.n), memo) :
          /\ passed' = IF AssertHolds(scen, Cur.n, f, ids) \/ Cur.n = 4 THEN passed + 1 ELSE passed
          /\ failed' = IF AssertHolds(scen, Cur.n, f, ids) THEN failed ELSE failed + 1
          /\ Goto(ip + 1, ids, Merge(memo, f))
    /\ total' = IF CountsPerAssert(scen) THEN total + 1 ELSE total
    /\ evaluated' = Append(evaluated, Cur.n)
    /\ last' = Did("assert", "", {})
    /\ UNCHANGED <<scen, settle, since, other, pc, tpc, tix, Machine, setupNone, verdict, rc, exc, sendFail, crashes>>

\* one if/else of the results section: a mark is printed, tests_passed is
\* incremented when the condition holds, and the next statement follows
StepAssert ==
    /\ AtStep("assert")
    /\ \E f \in Valuations(scen, AssertFacts(scen, Cur.n), memo) :
          /\ passed' = IF AssertHolds(scen, Cur.n, f, ids) THEN passed + 1 ELSE passed
          /\ failed' = IF AssertHolds(scen, Cur.n, f, ids) THEN failed ELSE failed + 1
          /\ Goto(ip + 1, ids, Merge(memo, f))
    /\ total' = IF CountsPerAssert(scen) THEN total + 1 ELSE total
    /\ evaluated' = Append(evaluated, Cur.n)
    /\ last' = Did("assert", "", {})
    /\ UNCHANGED <<scen, settle, since, other, pc, tpc, tix, Machine, setupNone, verdict, rc, exc, sendFail, crashes>>

\* the scoring if/elif/else: the banner and the value to return.  The scripts
\* return from inside it; test-permissions.py keeps the value in return_code
StepScore ==
    /\ AtStep("score")
    /\ \E f \in Valuations(scen, ScoreFacts(scen), memo) :
          /\ verdict' = Banner(scen, passed, total, f)
          /\ IF scen = "permissions"
             THEN /\ rc' = ReturnCode(scen, verdict')
                  /\ Goto(ip + 1, ids, memo)
                  /\ UNCHANGED <<pc, tpc, tix, exc>>
             ELSE EnterTeardown(ReturnCode(scen, verdict'), "none")
    /\ last' = Did("score", "", {})
    /\ UNCHANGED <<scen, settle, since, other, Machine, setupNone, passed, failed, total, evaluated, sendFail, crashes>>

\* return return_code
StepReturn ==
    /\ AtStep("return")
    /\ EnterTeardown(rc, "none")
    /\ last' = Did("return", "", {})
    /\ UNCHANGED <<scen, settle, since, other, Machine, setupNone, Tally, sendFail, crashes>>

----------------------------------------------------------------------------
(* The finally block *)

\* the participant the finally block is working on
Tc == Clients(scen)[tix]

InFinally(at) == pc = "teardown" /\ tpc = at

\* after the last statement on participant tix: the next participant, or the end
NextClient(at) ==
    IF tix < NumClients THEN /\ tpc' = at
                             /\ tix' = tix + 1
                             /\ pc' = pc
    ELSE Exit

\* what follows the wait / kill of a participant
AfterStopped ==
    CASE scen = "e2ee" -> tpc' = "close" /\ tix' = tix /\ pc' = pc
      [] scen = "permissions" ->
            IF tix < NumClients THEN tpc' = "term" /\ tix' = tix + 1 /\ pc' = pc
            ELSE tpc' = "close" /\ tix' = tix /\ pc' = pc
      [] OTHER -> NextClient(tpc)

\* mutation of TeardownTerminate: a 'quit' line is written to the client after
\* terminate()
TeardownTerminateThenQuit ==
    /\ InFinally("term")
    /\ proc[Tc] # "none"
    /\ termSent' = [termSent EXCEPT ![Tc] = TRUE]
    /\ written' = [written EXCEPT ![Tc] = TRUE]
    /\ last' = Did("cmd", Tc, {})
    /\ IF TeardownStyle(scen) = "each"
       THEN tpc' = "wait" /\ tix' = tix /\ pc' = pc
       ELSE IF tix < NumClients THEN tpc' = tpc /\ tix' = tix + 1 /\ pc' = pc
            ELSE tpc' = "wait" /\ tix' = 1 /\ pc' = pc
    /\ UNCHANGED <<scen, settle, since, other, ip, proc, handle, elapsed, killSent, ids, setupNone,
                   memo, Tally, rc, exc, sendFail, crashes>>

\* proc.terminate()
TeardownTerminate ==
    /\ InFinally("term")
    /\ proc[Tc] # "none"
    /\ termSent' = [termSent EXCEPT ![Tc] = TRUE]
    /\ IF TeardownStyle(scen) = "each"
       THEN tpc' = "wait" /\ tix' = tix /\ pc' = pc
       ELSE IF tix < NumClients THEN tpc' = tpc /\ tix' = tix + 1 /\ pc' = pc
            ELSE tpc' = "wait" /\ tix' = 1 /\ pc' = pc
    /\ UNCHANGED <<scen, settle, since, other, ip, proc, handle, elapsed, killSent, written, ids, setupNone,
                   memo, Tally, rc, exc, sendFail, crashes, last>>

\* SpacewayClient.stop(): 'if self.process:' is false, nothing to stop
TeardownNotStarted ==
    /\ InFinally("term")
    /\ proc[Tc] = "none"
    /\ tpc' = "close"
    /\ UNCHANGED <<scen, settle, since, other, pc, ip, tix, Machine, ids, setupNone, memo, Tally, rc, exc,
                   sendFail, crashes, last>>

\* proc.wait(timeout=..) returns: the process has exited
TeardownWaitReturns ==
    /\ InFinally("wait")
    /\ proc' = [proc EXCEPT ![Tc] = "exited"]
    /\ AfterStopped
    /\ UNCHANGED <<scen, settle, since, other, ip, handle, elapsed, termSent, killSent, written, ids, setupNone,
                   memo, Tally, rc, exc, sendFail, crashes, last>>

\* mutation of TeardownWaitTimesOut: the timeout is swallowed, nothing is killed
TeardownWaitTimesOutNoKill ==
    /\ InFinally("wait")
    /\ proc[Tc] = "alive"
    /\ AfterStopped
    /\ UNCHANGED <<scen, settle, since, other, ip, Machine, ids, setupNone, memo, Tally, rc, exc,
                   sendFail, crashes, last>>

\* proc.wait(timeout=..) raises TimeoutExpired: the process ignored SIGTERM;
\* the except clause is entered
TeardownWaitTimesOut ==
    /\ InFinally("wait")
    /\ proc[Tc] = "alive"
    /\ tpc' = "kill"
    /\ tix' = IF TeardownStyle(scen) = "each" THEN tix ELSE 1
    /\ UNCHANGED <<scen, settle, since, other, pc, ip, Machine, ids, setupNone, memo, Tally, rc, exc,
                   sendFail, crashes, last>>

\* mutation of TeardownKill: a forced kill makes the run fail
TeardownKillSurfaced ==
    /\ InFinally("kill")
    /\ killSent' = [killSent EXCEPT ![Tc] = TRUE]
    /\ proc' = [proc EXCEPT ![Tc] = "exited"]
    /\ AfterStopped
    /\ rc' = 1
    /\ UNCHANGED <<scen, settle, since, other, ip, handle, elapsed, termSent, written, ids, setupNone,
                   memo, Tally, exc, sendFail, crashes, last>>

\* proc.kill() in the except clause
TeardownKill ==
    /\ InFinally("kill")
    /\ killSent' = [killSent EXCEPT ![Tc] = TRUE]
    /\ proc' = [proc EXCEPT ![Tc] = "exited"]
    /\ AfterStopped
    /\ UNCHANGED <<scen, settle, since, other, ip, handle, elapsed, termSent, written, ids, setupNone,
                   memo, Tally, rc, exc, sendFail, crashes, last>>

\* the log handles are closed: by stop() for its client, by test-permissions.py
\* for all three after the loop
TeardownClose ==
    /\ InFinally("close")
    /\ handle' = [c \in AllClients |->
                    IF handle[c] # "none" /\ (c = Tc \/ scen = "permissions")
                    THEN "closed" ELSE handle[c]]
    /\ IF scen = "permissions" THEN Exit ELSE NextClient("term")
    /\ UNCHANGED <<scen, settle, since, other, ip, proc, elapsed, termSent, killSent, written, ids, setupNone,
                   memo, Tally, rc, exc, sendFail, crashes, last>>

\* Ctrl-C while the finally block waits for a client that has not exited yet.
\* SpacewayClient.stop() catches subprocess.TimeoutExpired only: the interrupt
\* leaves stop() and the finally block of test-e2ee.py.  The bare 'except:' of the
\* other scripts takes it like a timeout
InterruptTeardown ==
    /\ InFinally("wait")
    /\ proc[Tc] = "alive"
    /\ IF scen = "e2ee"
       THEN /\ pc' = "done"
            /\ tpc' = "raised"
            /\ tix' = tix
            /\ rc' = ExceptionCode(scen, "KeyboardInterrupt")
            /\ exc' = "KeyboardInterrupt"
       ELSE /\ tpc' = "kill"
            /\ tix' = IF TeardownStyle(scen) = "each" THEN tix ELSE 1
            /\ UNCHANGED <<pc, rc, exc>>
    /\ UNCHANGED <<scen, settle, since, other, ip, Machine, ids, setupNone, memo, Tally,
                   sendFail, crashes, last>>

----------------------------------------------------------------------------

Next ==
    \/ Cleanup \/ BuildOk \/ BuildFails \/ OpenLogs
    \/ Spawn \/ SpawnFails \/ InterruptSpawn \/ InterruptBody \/ Crash
    \/ StepSkipped \/ StepSleep \/ StepStart \/ StepStartFails
    \/ StepCmd \/ StepSendCaught \/ StepSendRaises
    \/ StepFind \/ StepRequirePasses \/ StepRequireFails
    \/ StepDeref \/ StepDerefRaises \/ StepCloseLogs \/ StepReopen
    \/ StepInitScore \/ StepAssert \/ StepScore \/ StepReturn
    \/ TeardownTerminate \/ TeardownNotStarted \/ TeardownWaitReturns
    \/ TeardownWaitTimesOut \/ TeardownKill \/ TeardownClose

Spec == Init /\ [][Next]_vars

\* the runs of the drivers with interrupts during the finally block as well
InterruptedSpec == Init /\ [][Next \/ InterruptTeardown]_vars

----------------------------------------------------------------------------
(* Vocabulary of the properties *)

\* the identifiers the setup phase requires: space id, invite token, peer id, user ids
RequiredIds == {"space_id", "invite", "peer_id", "bob_id", "charlie_id", "dave_id"}

\* the number of assertions a script declares
NumAssertions(s) == Cardinality({i \in 1..Len(Script(s)) : Script(s)[i].op = "assert"})

\* the last statement of the setup phase: the last extraction of a setup identifier
SetupEnd(s) ==
    CHOOSE i \in 1..Len(Script(s)) :
        /\ Script(s)[i].op = "find" /\ Script(s)[i].id \in SetupIds
        /\ \A j \in (i + 1)..Len(Script(s)) :
              ~(Script(s)[j].op = "find" /\ Script(s)[j].id \in SetupIds)

\* the partial-success threshold a script declares (none: only a full score succeeds)
HasThreshold(s) == s \in {"kick_member", "three_members", "three_members_kick",
                          "four_members_kick", "channel_kick", "space_modes"}

Threshold(s) ==
    CASE s = "kick_member" -> 4
      [] s = "three_members" -> 3
      [] s = "three_members_kick" -> 6
      [] s \in {"four_members_kick", "channel_kick"} -> 7
      [] s = "space_modes" -> 5
      [] OTHER -> 0

AtThreshold(s, p) == HasThreshold(s) /\ p >= Threshold(s)

\* the verdict a banner reports
Classify(banner) ==
    CASE banner \in {"SUCCESS", "ALL TESTS PASSED"} -> "Success"
      [] banner = "PARTIAL SUCCESS" -> "PartialSuccess"
      [] OTHER -> "Failure"

AllStarted == \A c \in ClientSet(scen) : proc[c] # "none"

----------------------------------------------------------------------------
(* The decrypt-marker count of the removed member, from the kick to the       *)
(* assertion on it: test-kick-member.py 174-263, test-three-members-kick.py   *)
(* 208-314, test-four-members-kick.py 237-350                                 *)

\* the most 'Decrypted MLS message' lines a log is followed to
MaxMarkers == 7

KickScenarios == {"kick_member", "three_members_kick", "four_members_kick"}

\* the number of the assertion on the removed member's count
KickAssertion(s) ==
    CASE s = "kick_member" -> 6
      [] s = "three_members_kick" -> 8
      [] s = "four_members_kick" -> 10

\* the clients are running and Bob is a member of the space
KickInit ==
    /\ DriverInit(KickScenarios)
    /\ LogIdle /\ ThreadIdle /\ IsoIdle /\ ConfirmIdle /\ RunnerIdle /\ ClientIdle /\ PermIdle
    /\ kick = [phase |-> "running", markers |-> 0, atKick |-> -1, read |-> -1, ok |-> FALSE]

\* Bob's engine writes one more 'Decrypted MLS message' line to its log
EngineDecrypts ==
    /\ kick.phase \in {"running", "kicked", "read"}
    /\ kick.markers < MaxMarkers
    /\ kick' = [kick EXCEPT !.markers = @ + 1]
    /\ UNCHANGED <<driver, buf, sink, prev, cur, thr, iso, conf, runner, cli, perm>>

\* run_command(alice, f'kick {bob_id}', wait=7)
KickIssued ==
    /\ kick.phase = "running"
    /\ kick' = [kick EXCEPT !.phase = "kicked", !.atKick = kick.markers]
    /\ UNCHANGED <<driver, buf, sink, prev, cur, thr, iso, conf, runner, cli, perm>>

\* bob_decrypts = len(re.findall(r'Decrypted MLS message', bob_log_content))
KickCountRead ==
    /\ kick.phase = "kicked"
    /\ kick' = [kick EXCEPT !.phase = "read", !.read = kick.markers]
    /\ UNCHANGED <<driver, buf, sink, prev, cur, thr, iso, conf, runner, cli, perm>>

\* the assertion on bob_decrypts, the last one of the script
KickCountAsserted ==
    /\ kick.phase = "read"
    /\ \E f \in [AssertFacts(scen, KickAssertion(scen)) -> 0..MaxMarkers] :
          /\ f["bob_decrypts"] = kick.read
          /\ \A x \in DOMAIN f \ {"bob_decrypts"} : f[x] \in CountValues(scen, x)
          /\ kick' = [kick EXCEPT !.phase = "asserted",
                                  !.ok = AssertHolds(scen, KickAssertion(scen), f, ids)]
    /\ UNCHANGED <<driver, buf, sink, prev, cur, thr, iso, conf, runner, cli, perm>>

KickNext == EngineDecrypts \/ KickIssued \/ KickCountRead \/ KickCountAsserted

KickSpec == KickInit /\ [][KickNext]_vars

----------------------------------------------------------------------------
(* The captured log of one client and the functions that read it:            *)
(* find_in_log, check_log and the count of decrypt markers                   *)

\* the most lines a log is followed to
MaxLines == 3

\* the lines an engine writes, by what the patterns of the scripts see in them:
\* 'Created thread: <title> (<id>)', 'Peer ID: <id>', 'Decrypted MLS message'
LogLines == {[k |-> "thread", v |-> "t1"], [k |-> "thread", v |-> "t2"],
             [k |-> "peer", v |-> "p1"], [k |-> "marker", v |-> ""]}

\* the patterns with a capture group, and all patterns
FindPatterns == {"Created thread", "Peer ID"}

CheckPatterns == FindPatterns \cup {"Decrypted MLS message"}

\* re.search(pattern, line) is not None
Matches(line, pat) ==
    \/ pat = "Created thread" /\ line.k = "thread"
    \/ pat = "Peer ID" /\ line.k = "peer"
    \/ pat = "Decrypted MLS message" /\ line.k = "marker"
    \/ pat = "permission|denied|not allowed|cannot" /\ line.k = "denied"
    \/ pat = "Created channel" /\ line.k = "channel"

\* mutation of Content: a handle kept open, read from where the last read ended
ContentSinceLastRead(b, from) == SubSeq(b, from + 1, Len(b))

\* open(log_file, 'r').read(): the whole file, whatever was read before
Content(b, from) == b

\* mutation of FindInLog: the last match is returned
FindLastInLog(content, pat) ==
    LET M == {i \in 1..Len(content) : Matches(content[i], pat)}
    IN  IF M = {} THEN "absent"
        ELSE content[CHOOSE i \in M : \A j \in M : j <= i].v

\* match = re.search(pattern, content); return match.group(1) if match else None
FindInLog(content, pat) ==
    LET M == {i \in 1..Len(content) : Matches(content[i], pat)}
    IN  IF M = {} THEN "absent"
        ELSE content[CHOOSE i \in M : \A j \in M : i <= j].v

\* mutation of CheckLog: the pattern is looked for in the last line only
CheckLogAtEnd(content, pat) ==
    IF content # << >> /\ Matches(content[Len(content)], pat) THEN "true" ELSE "false"

\* bool(re.search(pattern, content))
CheckLog(content, pat) ==
    IF \E i \in 1..Len(content) : Matches(content[i], pat) THEN "true" ELSE "false"

\* mutation of CountMarkers: only the last two lines of the log are counted
CountMarkersInTail(content) ==
    Cardinality({i \in 1..Len(content) :
                    i > Len(content) - 2 /\ Matches(content[i], "Decrypted MLS message")})

\* len(re.findall(r'Decrypted MLS message', content))
CountMarkers(content) ==
    Cardinality({i \in 1..Len(content) : Matches(content[i], "Decrypted MLS message")})

\* the purge has run: the client has no log yet
LogInit ==
    /\ DriverInit({"permissions"})
    /\ LogIdle
    /\ KickIdle /\ ThreadIdle /\ IsoIdle /\ ConfirmIdle /\ RunnerIdle /\ ClientIdle /\ PermIdle

\* x_log = open(path, 'w'), handed to Popen as the client's stdout
SinkOpen ==
    /\ sink = "none"
    /\ sink' = "w"
    /\ buf' = << >>
    /\ UNCHANGED <<driver, prev, cur, kick, thr, iso, conf, runner, cli, perm>>

\* the engine writes a line to its stdout
EngineWrites ==
    /\ sink # "none"
    /\ Len(buf) < MaxLines
    /\ \E line \in LogLines : buf' = Append(buf, line)
    /\ UNCHANGED <<driver, sink, prev, cur, kick, thr, iso, conf, runner, cli, perm>>

\* x_log.close()
SinkClose ==
    /\ sink \in {"w", "r"}
    /\ sink' = "closed"
    /\ UNCHANGED <<driver, buf, prev, cur, kick, thr, iso, conf, runner, cli, perm>>

\* mutation of SinkReopen: the log is opened for writing again
SinkReopenTruncating ==
    /\ sink = "w"
    /\ sink' = "r"
    /\ buf' = << >>
    /\ UNCHANGED <<driver, prev, cur, kick, thr, iso, conf, runner, cli, perm>>

\* x_log.close(); x_log = open(x['log'], 'r')
SinkReopen ==
    /\ sink = "w"
    /\ sink' = "r"
    /\ UNCHANGED <<driver, buf, prev, cur, kick, thr, iso, conf, runner, cli, perm>>

\* find_in_log(log_file, pattern)
ReadFind ==
    /\ sink # "none"
    /\ \E pat \in FindPatterns :
          cur' = Rd("find", pat, FindInLog(Content(buf, cur.len), pat), 0, Len(buf))
    /\ prev' = cur
    /\ UNCHANGED <<driver, buf, sink, kick, thr, iso, conf, runner, cli, perm>>

\* check_log(log_file, pattern)
ReadCheck ==
    /\ sink # "none"
    /\ \E pat \in CheckPatterns :
          cur' = Rd("check", pat, CheckLog(Content(buf, cur.len), pat), 0, Len(buf))
    /\ prev' = cur
    /\ UNCHANGED <<driver, buf, sink, kick, thr, iso, conf, runner, cli, perm>>

\* x_decrypts = len(re.findall(r'Decrypted MLS message', open(x['log']).read()))
ReadCount ==
    /\ sink # "none"
    /\ cur' = Rd("count", "Decrypted MLS message", "",
                 CountMarkers(Content(buf, cur.len)), Len(buf))
    /\ prev' = cur
    /\ UNCHANGED <<driver, buf, sink, kick, thr, iso, conf, runner, cli, perm>>

\* find_in_log and check_log of the scripts wrap the read in try/except and
\* return None / False; SpacewayClient.read_log of test-e2ee.py has no try
ReadCatches(s) == s # "e2ee"

\* a find or check of script s while the log file does not exist: open(log_file, 'r')
\* raises FileNotFoundError
ReadMissing ==
    /\ sink = "none"
    /\ \E s \in Scenarios, op \in {"find", "check"} :
          \E pat \in IF op = "find" THEN FindPatterns ELSE CheckPatterns :
             cur' = IF ReadCatches(s)
                    THEN Rd(op, pat, IF op = "find" THEN "absent" ELSE "false", 0, 0)
                    ELSE Rd("raised", pat, "", 0, 0)
    /\ prev' = cur
    /\ UNCHANGED <<driver, buf, sink, kick, thr, iso, conf, runner, cli, perm>>

LogNext ==
    \/ SinkOpen \/ EngineWrites \/ SinkClose \/ SinkReopen
    \/ ReadFind \/ ReadCheck \/ ReadCount \/ ReadMissing

LogSpec == LogInit /\ [][LogNext]_vars

----------------------------------------------------------------------------
(* The thread setup of test-channel-kick.py (204-242): a thread is created    *)
(* in each channel and its identifier extracted from Alice's log              *)

\* the 'Created thread' lines in a log
ThreadLines(b) == {i \in 1..Len(b) : b[i].k = "thread"}

\* Alice's engine runs and the channels exist
ThreadInit ==
    /\ DriverInit({"channel_kick"})
    /\ buf = << >> /\ sink = "w" /\ prev = NoRead /\ cur = NoRead
    /\ KickIdle /\ IsoIdle /\ ConfirmIdle /\ RunnerIdle /\ ClientIdle /\ PermIdle
    /\ thr = [pc |-> "create1", made |-> 0, seen |-> 0, id1 |-> "unset", id2 |-> "unset",
              used1 |-> "unset", used2 |-> "unset"]

\* Alice's engine logs the creation of the next thread it was told to create,
\* or a line of another kind
ThreadEngineWrites ==
    /\ Len(buf) < MaxLines
    /\ \/ /\ Cardinality(ThreadLines(buf)) < thr.made
          /\ buf' = Append(buf, [k |-> "thread",
                                 v |-> IF ThreadLines(buf) = {} THEN "t1" ELSE "t2"])
       \/ \E line \in {l \in LogLines : l.k # "thread"} : buf' = Append(buf, line)
    /\ UNCHANGED <<driver, sink, prev, cur, kick, thr, iso, conf, runner, cli, perm>>

\* run_command(alice, 'thread create "General Discussion"', wait=3) and
\* run_command(alice, 'thread create "Private Discussion"', wait=3)
ThreadCreate ==
    /\ thr.pc \in {"create1", "create2"}
    /\ thr' = [thr EXCEPT !.pc = IF thr.pc = "create1" THEN "find1" ELSE "find2",
                          !.made = @ + 1]
    /\ UNCHANGED <<driver, buf, sink, prev, cur, kick, iso, conf, runner, cli, perm>>

\* thread1_id = find_in_log(alice['log'], r'Created thread: .+? \(([0-9a-f]{16})\)')
ThreadFind1 ==
    /\ thr.pc = "find1"
    /\ thr' = [thr EXCEPT !.pc = "create2",
                          !.id1 = FindInLog(Content(buf, 0), "Created thread")]
    /\ UNCHANGED <<driver, buf, sink, prev, cur, kick, iso, conf, runner, cli, perm>>

\* thread2_id = find_in_log(alice['log'], r'Created thread: .+? \(([0-9a-f]{16})\)')
ThreadFind2 ==
    /\ thr.pc = "find2"
    /\ thr' = [thr EXCEPT !.pc = "nav1",
                          !.seen = Cardinality(ThreadLines(buf)),
                          !.id2 = FindInLog(Content(buf, 0), "Created thread")]
    /\ UNCHANGED <<driver, buf, sink, prev, cur, kick, iso, conf, runner, cli, perm>>

\* run_command(client, f'thread {thread1_id}', wait=2), before the 'Channel 1' messages
ThreadNav1 ==
    /\ thr.pc = "nav1"
    /\ thr' = [thr EXCEPT !.pc = "nav2", !.used1 = thr.id1]
    /\ UNCHANGED <<driver, buf, sink, prev, cur, kick, iso, conf, runner, cli, perm>>

\* run_command(client, f'thread {thread2_id}', wait=2), before the 'Channel 2' messages
ThreadNav2 ==
    /\ thr.pc = "nav2"
    /\ thr' = [thr EXCEPT !.pc = "done", !.used2 = thr.id2]
    /\ UNCHANGED <<driver, buf, sink, prev, cur, kick, iso, conf, runner, cli, perm>>

ThreadNext ==
    \/ ThreadEngineWrites \/ ThreadCreate \/ ThreadFind1 \/ ThreadFind2
    \/ ThreadNav1 \/ ThreadNav2

ThreadSpec == ThreadInit /\ [][ThreadNext]_vars

----------------------------------------------------------------------------
(* Two driver runs side by side: the ports, key files and log files each      *)
(* script names, and the purge it starts with                                 *)

Runs == {1, 2}

\* the directory the script keeps its keys and logs in: the working directory,
\* or test_dir = 'tests/test-runs/<name>'
WorkDir(s) ==
    CASE s \in {"e2ee", "bidirectional", "kick_member", "three_members",
                "three_members_kick"} -> "."
      [] s = "four_members_kick" -> "tests/test-runs/four-members-kick"
      [] s = "channel_kick" -> "tests/test-runs/channel-kick"
      [] s = "permissions" -> "tests/test-runs/permissions"
      [] s = "space_modes" -> "tests/test-runs/space-modes"

\* the suffix of the log names of the script: alice_kick.log, alice_bidir.log, ..;
\* the scripts with a test_dir name the logs alice.log, ..
LogTag(s) ==
    CASE s = "e2ee" -> "e2ee"
      [] s = "bidirectional" -> "bidir"
      [] s = "kick_member" -> "kick"
      [] s = "three_members" -> "3m"
      [] s = "three_members_kick" -> "3kick"
      [] OTHER -> ""

\* '--port', '9001' .. '9004'
Port(c) ==
    CASE c = "Alice" -> 9001
      [] c = "Bob" -> 9002
      [] c = "Charlie" -> 9003
      [] c = "Dave" -> 9004

Ports(s) == {Port(c) : c \in ClientSet(s)}

\* '--account', 'alice.key' or f'{test_dir}/alice.key'
KeyFiles(s) ==
    {[dir |-> WorkDir(s), who |-> c, kind |-> "key", tag |-> ""] : c \in ClientSet(s)}

\* open('alice_kick.log', 'w') or open(f'{test_dir}/alice.log', 'w')
LogFiles(s) ==
    {[dir |-> WorkDir(s), who |-> c, kind |-> "log", tag |-> LogTag(s)] : c \in ClientSet(s)}

\* the history file and the state directory an engine keeps beside its key file
StateFiles(s) ==
    {[dir |-> WorkDir(s), who |-> c, kind |-> k, tag |-> ""] :
        c \in ClientSet(s), k \in {"history", "data"}}

\* everything a run of the script leaves behind
RunFiles(s) == KeyFiles(s) \cup LogFiles(s) \cup StateFiles(s)

\* a purge that deletes the logs of the script and nothing else
PurgedOwnLogs(s, f) ==
    f.dir = WorkDir(s) /\ f.kind = "log" /\ f.tag = LogTag(s) /\ f.who \in ClientSet(s)

\* os.system('rm -rf *-data/ *.key *.history alice_kick.log bob_kick.log') or
\* os.system(f'rm -rf {test_dir}/*') deletes the file
Purged(s, f) ==
    IF WorkDir(s) = "."
    THEN /\ f.dir = "."
         /\ \/ f.kind \in {"key", "history", "data"}
            \/ f.kind = "log" /\ f.tag = LogTag(s) /\ f.who \in ClientSet(s)
    ELSE f.dir = WorkDir(s)

\* two drivers are started, each with one of the scripts; old says that an
\* earlier, finished run of the script has left its files
IsoInit ==
    /\ DriverInit({"kick_member"})
    /\ LogIdle /\ KickIdle /\ ThreadIdle /\ ConfirmIdle /\ RunnerIdle /\ ClientIdle /\ PermIdle
    /\ \E ss \in [Runs -> Scenarios], old \in [Runs -> BOOLEAN] :
          LET left == UNION {RunFiles(ss[r]) : r \in {r \in Runs : old[r]}}
          IN  iso = [run |-> [r \in Runs |->
                                [s |-> ss[r], phase |-> "idle", old |-> old[r]]],
                     files |-> left, stale |-> left, lost |-> {}]

\* the purge a script starts with; lost collects the files it deletes that a
\* running driver works with
IsoPurge(r) ==
    /\ iso.run[r].phase = "idle"
    /\ LET s == iso.run[r].s
           D == {f \in iso.files : Purged(s, f)}
           U == UNION {KeyFiles(iso.run[q].s) \cup LogFiles(iso.run[q].s) :
                          q \in {q \in Runs \ {r} : iso.run[q].phase = "running"}}
       IN  iso' = [iso EXCEPT !.run[r].phase = "purged",
                              !.files = @ \ D,
                              !.stale = @ \ D,
                              !.lost = @ \cup (D \cap U)]
    /\ UNCHANGED <<driver, buf, sink, prev, cur, kick, thr, conf, runner, cli, perm>>

\* the logs are opened for writing, which empties a log that was there, and the
\* engines are spawned with their key files
IsoStart(r) ==
    /\ iso.run[r].phase = "purged"
    /\ iso' = [iso EXCEPT !.run[r].phase = "running",
                          !.files = @ \cup RunFiles(iso.run[r].s),
                          !.stale = @ \ LogFiles(iso.run[r].s)]
    /\ UNCHANGED <<driver, buf, sink, prev, cur, kick, thr, conf, runner, cli, perm>>

\* the finally block has stopped the engines
IsoFinish(r) ==
    /\ iso.run[r].phase = "running"
    /\ iso' = [iso EXCEPT !.run[r].phase = "done"]
    /\ UNCHANGED <<driver, buf, sink, prev, cur, kick, thr, conf, runner, cli, perm>>

IsoNext == \E r \in Runs : IsoPurge(r) \/ IsoStart(r) \/ IsoFinish(r)

IsoSpec == IsoInit /\ [][IsoNext]_vars

----------------------------------------------------------------------------
(* The 'kick succeeded' assertion of the scripts that remove a member, on     *)
(* the confirmations in the remover's log                                     *)

\* the lines by which an engine confirms a removal, the last in two spellings
ConfirmLines == {"Successfully removed user", "MLS keys rotated",
                 "removed member can't decrypt", "Removed member can't decrypt"}

\* the number of the 'kick succeeded' assertion
ConfirmAssertion(s) ==
    CASE s = "kick_member" -> 4
      [] s = "three_members_kick" -> 5
      [] s = "four_members_kick" -> 6
      [] s = "channel_kick" -> 9

\* str.lower() of a confirmation line
Lower(l) ==
    CASE l = "Successfully removed user" -> "successfully removed user"
      [] l = "MLS keys rotated" -> "mls keys rotated"
      [] OTHER -> "removed member can't decrypt"

\* the substring tests on alice_log_content, in a log that holds the lines L
ConfirmFacts(L) ==
    [x \in {"log_removed_user", "log_keys_rotated", "log_cant_decrypt"} |->
        CASE x = "log_removed_user" -> "Successfully removed user" \in L
          [] x = "log_keys_rotated" -> "MLS keys rotated" \in L
          [] x = "log_cant_decrypt" ->
                \E l \in L : Lower(l) = "removed member can't decrypt"]

\* the kick command has been written
ConfirmInit ==
    /\ DriverInit(KickScenarios \cup {"channel_kick"})
    /\ LogIdle /\ KickIdle /\ ThreadIdle /\ IsoIdle /\ RunnerIdle /\ ClientIdle /\ PermIdle
    /\ conf = [phase |-> "running", lines |-> {}, ok |-> FALSE]

\* Alice's engine writes a confirmation line
ConfirmEngineWrites ==
    /\ conf.phase = "running"
    /\ \E l \in ConfirmLines \ conf.lines : conf' = [conf EXCEPT !.lines = @ \cup {l}]
    /\ UNCHANGED <<driver, buf, sink, prev, cur, kick, thr, iso, runner, cli, perm>>

\* the 'kick succeeded' assertion on the content of Alice's closed log
ConfirmAsserted ==
    /\ conf.phase = "running"
    /\ LET n == ConfirmAssertion(scen)
           f == [x \in AssertFacts(scen, n) |-> ConfirmFacts(conf.lines)[x]]
       IN  conf' = [conf EXCEPT !.phase = "asserted", !.ok = AssertHolds(scen, n, f, ids)]
    /\ UNCHANGED <<driver, buf, sink, prev, cur, kick, thr, iso, runner, cli, perm>>

ConfirmNext == ConfirmEngineWrites \/ ConfirmAsserted

ConfirmSpec == ConfirmInit /\ [][ConfirmNext]_vars

----------------------------------------------------------------------------
(* TestRunner.test of test-automation.py *)

\* at most this many calls of test()
MaxTests == 4

\* what check_fn does: it returns True, False, None or a matched string, or it
\* raises an Exception, or a KeyboardInterrupt arrives while it runs
CheckOutcomes == {"True", "False", "None", "match", "Exception", "KeyboardInterrupt"}

\* 'if check_fn():'
Truthy(o) == o \in {"True", "match"}

\* mutation of Test: there is no except clause, the exception of check_fn leaves test()
TestPropagates ==
    /\ runner.total < MaxTests
    /\ runner.call # "raised"
    /\ \E o \in CheckOutcomes :
          runner' = [total |-> runner.total + 1,
                     passed |-> IF Truthy(o) THEN runner.passed + 1 ELSE runner.passed,
                     results |-> CASE Truthy(o) -> Append(runner.results, "pass")
                                   [] o \in {"False", "None"} -> Append(runner.results, "fail")
                                   [] OTHER -> runner.results,
                     arg |-> o,
                     call |-> CASE Truthy(o) -> "True"
                                [] o \in {"False", "None"} -> "False"
                                [] OTHER -> "raised"]
    /\ UNCHANGED <<driver, buf, sink, prev, cur, kick, thr, iso, conf, cli, perm>>

\* test(description, check_fn): tests_total += 1, then inside the try one
\* log_result per branch; 'except Exception' logs the error and returns False,
\* a KeyboardInterrupt is not an Exception and leaves test()
Test ==
    /\ runner.total < MaxTests
    /\ runner.call # "raised"
    /\ \E o \in CheckOutcomes :
          runner' = [total |-> runner.total + 1,
                     passed |-> IF Truthy(o) THEN runner.passed + 1 ELSE runner.passed,
                     results |-> CASE Truthy(o) -> Append(runner.results, "pass")
                                   [] o \in {"False", "None"} -> Append(runner.results, "fail")
                                   [] o = "Exception" -> Append(runner.results, "error")
                                   [] OTHER -> runner.results,
                     arg |-> o,
                     call |-> CASE Truthy(o) -> "True"
                                [] o \in {"False", "None", "Exception"} -> "False"
                                [] OTHER -> "raised"]
    /\ UNCHANGED <<driver, buf, sink, prev, cur, kick, thr, iso, conf, cli, perm>>

RunnerInit ==
    /\ DriverInit({"e2ee"})
    /\ LogIdle /\ KickIdle /\ ThreadIdle /\ IsoIdle /\ ConfirmIdle /\ ClientIdle /\ PermIdle
    /\ RunnerIdle

RunnerSpec == RunnerInit /\ [][Test]_vars

----------------------------------------------------------------------------
(* TEST 3 of test-permissions.py: Charlie's 'channel create' and the checks   *)
(* of his log that follow it                                                  *)

\* what Charlie's engine writes: a refusal, 'Created channel ..', a decrypt marker
PermLines == {[k |-> "denied", v |-> ""], [k |-> "channel", v |-> ""],
              [k |-> "marker", v |-> ""]}

\* Charlie has joined; his log has what his engine wrote so far
PermInit ==
    /\ DriverInit({"permissions"})
    /\ LogIdle /\ KickIdle /\ ThreadIdle /\ IsoIdle /\ ConfirmIdle /\ RunnerIdle /\ ClientIdle
    /\ perm = [phase |-> "joined", log |-> << >>, cmdAt |-> 0, denied |-> FALSE, ok |-> FALSE]

\* Charlie's engine writes a line to its stdout
PermEngineWrites ==
    /\ perm.phase \in {"joined", "sent"}
    /\ Len(perm.log) < MaxLines
    /\ \E line \in PermLines : perm' = [perm EXCEPT !.log = Append(@, line)]
    /\ UNCHANGED <<driver, buf, sink, prev, cur, kick, thr, iso, conf, runner, cli>>

\* run_command(charlie, 'channel create charlies-channel', wait=3)
PermCommand ==
    /\ perm.phase = "joined"
    /\ perm' = [perm EXCEPT !.phase = "sent", !.cmdAt = Len(perm.log)]
    /\ UNCHANGED <<driver, buf, sink, prev, cur, kick, thr, iso, conf, runner, cli>>

\* denied, context = check_log(charlie['log'], r'(permission|...|cannot)', context_lines=2)
\* and, if not denied, created, _ = check_log(charlie['log'], r'Created channel'):
\* the second assertion of the script
PermAsserted ==
    /\ perm.phase = "sent"
    /\ LET content == Content(perm.log, perm.cmdAt)
           f == [x \in AssertFacts(scen, 2) |->
                   IF x = "charlie_denied"
                   THEN CheckLog(content, "permission|denied|not allowed|cannot") = "true"
                   ELSE CheckLog(content, "Created channel") = "true"]
       IN  perm' = [perm EXCEPT !.phase = "asserted",
                                !.denied = f["charlie_denied"],
                                !.ok = AssertHolds(scen, 2, f, ids)]
    /\ UNCHANGED <<driver, buf, sink, prev, cur, kick, thr, iso, conf, runner, cli>>

PermNext == PermEngineWrites \/ PermCommand \/ PermAsserted

PermSpec == PermInit /\ [][PermNext]_vars

----------------------------------------------------------------------------
(* A SpacewayClient object (test-e2ee.py, test-automation.py) under any       *)
(* sequence of start() and stop() calls                                       *)

\* at most this many calls of start() on the object
MaxStarts == 3

\* the object was constructed
ClientInit ==
    /\ DriverInit({"e2ee"})
    /\ LogIdle /\ KickIdle /\ ThreadIdle /\ IsoIdle /\ ConfirmIdle /\ RunnerIdle /\ PermIdle
    /\ ClientIdle

\* start(): self.log_handle = open(self.log_file, 'w'); self.process = Popen(..).
\* Both attributes are overwritten, whatever they held
ClientStart ==
    /\ Len(cli.handles) < MaxStarts
    /\ cli' = [cli EXCEPT !.handles = Append(@, "open"),
                          !.log_handle = Len(cli.handles) + 1,
                          !.procs = Append(@, "alive"),
                          !.process = Len(cli.procs) + 1,
                          !.op = "start", !.raised = FALSE]
    /\ UNCHANGED <<driver, buf, sink, prev, cur, kick, thr, iso, conf, runner, perm>>

\* start() with Popen raising (no binary): the log was opened, self.process is
\* what it was
ClientStartFails ==
    /\ Len(cli.handles) < MaxStarts
    /\ cli' = [cli EXCEPT !.handles = Append(@, "open"),
                          !.log_handle = Len(cli.handles) + 1,
                          !.op = "start", !.raised = TRUE]
    /\ UNCHANGED <<driver, buf, sink, prev, cur, kick, thr, iso, conf, runner, perm>>

\* an engine process exits on its own
ClientProcExits ==
    /\ \E i \in 1..Len(cli.procs) :
          /\ cli.procs[i] = "alive"
          /\ cli' = [cli EXCEPT !.procs[i] = "exited"]
    /\ UNCHANGED <<driver, buf, sink, prev, cur, kick, thr, iso, conf, runner, perm>>

\* stop(): 'if self.process:' terminate() and wait(timeout=5), which returns;
\* 'if self.log_handle:' close()
ClientStop ==
    /\ cli' = [cli EXCEPT
                 !.procs = IF cli.process = 0 THEN @ ELSE [@ EXCEPT ![cli.process] = "exited"],
                 !.handles = IF cli.log_handle = 0 THEN @
                             ELSE [@ EXCEPT ![cli.log_handle] = "closed"],
                 !.op = "stop", !.raised = FALSE]
    /\ UNCHANGED <<driver, buf, sink, prev, cur, kick, thr, iso, conf, runner, perm>>

\* stop() with wait(timeout=5) raising TimeoutExpired: kill()
ClientStopKills ==
    /\ cli.process # 0
    /\ cli.procs[cli.process] = "alive"
    /\ cli' = [cli EXCEPT
                 !.procs[cli.process] = "exited",
                 !.handles = IF cli.log_handle = 0 THEN @
                             ELSE [@ EXCEPT ![cli.log_handle] = "closed"],
                 !.op = "kill", !.raised = FALSE]
    /\ UNCHANGED <<driver, buf, sink, prev, cur, kick, thr, iso, conf, runner, perm>>

ClientNext ==
    ClientStart \/ ClientStartFails \/ ClientProcExits \/ ClientStop \/ ClientStopKills

ClientSpec == ClientInit /\ [][ClientNext]_vars

----------------------------------------------------------------------------
(* Properties *)

C2_NoLeakedProcesses ==
    pc = "done" => \A c \in AllClients : proc[c] # "alive"

\* C3: when the finally block has completed, terminate() was called on every
\* started client and no client process is alive, whichever clients ignored SIGTERM.
C3_TeardownLeavesNothingAlive ==
    (pc = "done" /\ tpc = "end") =>
        \A c \in ClientSet(scen) : proc[c] # "none" => (termSent[c] /\ proc[c] = "exited")

\* teardown completed with one client killed after its timeout and another that
\* exited on SIGTERM
C3_Witness ==
    /\ pc = "done" /\ tpc = "end"
    /\ \E c, d \in ClientSet(scen) : killSent[c] /\ ~killSent[d] /\ termSent[d]

\* C4: no command built from an absent required identifier is ever written, and a
\* run in which a setup extraction returned absent evaluates no assertion and,
\* ending without exception, exits with code 1.
C4_SetupFailureIsFatal ==
    /\ last.kind = "cmd" => last.bad \cap RequiredIds = {}
    /\ setupNone => evaluated = << >>
    /\ (pc = "done" /\ setupNone /\ exc = "none") => rc = 1

\* C5: a write to a client whose process has exited never raises to the caller.
C5_SendNeverRaises ==
    exc # "BrokenPipeError"

\* C6: a run that completed its setup phase with every setup identifier extracted
\* and was not interrupted evaluates every assertion of its script before it exits.
C6_OnlySetupAborts ==
    (pc = "done" /\ ip > SetupEnd(scen) /\ ~setupNone /\ exc # "KeyboardInterrupt")
        => Len(evaluated) = NumAssertions(scen)

\* C7: a driver that exits without exception exits with 0 exactly when it reached
\* scoring with passed = total or passed at or above its threshold, and with 1
\* otherwise (failed build and absent required identifier included).
C7_ExitCodeContract ==
    (pc = "done" /\ exc = "none") =>
        /\ rc \in {0, 1}
        /\ rc = 0 <=> (verdict # "none" /\ (passed = total \/ AtThreshold(scen, passed)))

\* C8: the banner reports Success exactly when passed = total, and PartialSuccess
\* only when passed < total and passed is at or above the threshold.
C8_VerdictClassification ==
    verdict # "none" =>
        /\ Classify(verdict) = "Success" <=> passed = total
        /\ Classify(verdict) = "PartialSuccess" => (passed < total /\ AtThreshold(scen, passed))

\* C9: the assertions are evaluated in declaration order, each once; a run that
\* entered the assertion phase and ended without exception evaluated all of them
\* whatever their outcomes, and total is the number of declared assertions.
C9_AssertionsNonFatal ==
    /\ \A i \in 1..Len(evaluated) : evaluated[i] = i
    /\ (pc = "done" /\ exc = "none" /\ evaluated # << >>) =>
          /\ Len(evaluated) = NumAssertions(scen)
          /\ total = NumAssertions(scen)
    /\ verdict # "none" => total = NumAssertions(scen)

\* a finished run in which assertions failed and all eight were evaluated
C9_Witness ==
    /\ pc = "done" /\ scen = "three_members_kick"
    /\ Len(evaluated) = 8 /\ passed < 2

C12_SuccessMeansRevocationBoundary ==
    [][(AtStep("score") /\ scen \in {"three_members_kick", "four_members_kick"}
        /\ Classify(verdict') = "Success") =>
          /\ BoundaryFacts(scen) \subseteq DOMAIN memo
          /\ ~memo["bob_got_after_kick"]
          /\ \A x \in BoundaryFacts(scen) \ {"bob_got_after_kick"} : memo[x]]_vars

\* the four-member script about to score a run in which every assertion passed
C12_Witness ==
    /\ AtStep("score") /\ scen = "four_members_kick"
    /\ passed = total /\ total = NumAssertions(scen)
    /\ ~memo["bob_got_after_kick"] /\ memo["charlie_got_after_kick"]
    /\ memo["dave_got_after_kick"]

\* C18: the commands are written one at a time in script order: when the driver
\* stands behind a command step, the command was written to a running client and
\* the driver slept that command's whole settle interval before going on.
C18_IssuanceSerialized ==
    (pc = "body" /\ last.kind = "cmd") =>
        /\ ip > 1 /\ Script(scen)[ip - 1].op = "cmd"
        /\ Script(scen)[ip - 1].c = last.c
        /\ written[last.c]
        /\ Script(scen)[ip - 1].wait > 0
        /\ settle = Script(scen)[ip - 1].wait

\* the three-member kick script has written Charlie's join and slept its 4 seconds
C18_Witness ==
    /\ scen = "three_members_kick" /\ pc = "body"
    /\ last.kind = "cmd" /\ last.c = "Charlie" /\ settle = 4
    /\ written["Alice"] /\ written["Bob"] /\ written["Charlie"]

\* C20: a client process that exited on its own has been noticed by the driver
\* (a write to it failed) by the time the script computes its verdict.
C20_CrashDetectedBeforeVerdict ==
    (AtStep("score") /\ crashes > 0) => sendFail

\* C11: the assertion on the removed member's decrypt-marker count passes exactly
\* when the count read for the assertion equals the count the member's log had
\* when the kick command was written.
C11_CountUnchangedSinceKick ==
    kick.phase = "asserted" => (kick.ok <=> kick.read = kick.atKick)

\* C14: two consecutive find_in_log (check_log, count) calls with the same pattern
\* and no line written between them return the same result, and a call leaves
\* the log as it is.
C14_ExtractionIdempotent ==
    /\ []((prev.op # "none" /\ prev.op = cur.op /\ prev.pat = cur.pat /\ prev.len = cur.len)
            => (prev.res = cur.res /\ prev.n = cur.n))
    /\ [][<<prev, cur>>' # <<prev, cur>> => buf' = buf]_vars

\* the thread pattern was searched twice in a row in a log that holds its match
C14_Witness ==
    /\ prev.op = "find" /\ cur = prev
    /\ cur.pat = "Created thread" /\ cur.res = "t1" /\ cur.len >= 2

\* C15: find_in_log returns the capture of the first matching line, and returns
\* nothing exactly when no line of the log matches at the call; once a pattern has
\* matched, a later call with it returns the same value whatever was written since.
C15_FirstOccurrenceWins ==
    /\ cur.op = "find" =>
          /\ cur.res = "absent" <=> ~\E i \in 1..cur.len : Matches(buf[i], cur.pat)
          /\ cur.res # "absent" =>
                \E i \in 1..cur.len :
                   /\ Matches(buf[i], cur.pat) /\ buf[i].v = cur.res
                   /\ \A j \in 1..(i - 1) : ~Matches(buf[j], cur.pat)
    /\ (prev.op = "find" /\ cur.op = "find" /\ prev.pat = cur.pat /\ prev.res # "absent")
          => cur.res = prev.res

\* the thread pattern matched t1; the creation of t2 was logged since, and the
\* second search still returns t1
C15_Witness ==
    /\ prev.op = "find" /\ cur.op = "find"
    /\ prev.pat = "Created thread" /\ cur.pat = "Created thread"
    /\ prev.res = "t1" /\ cur.res = "t1"
    /\ prev.len < cur.len
    /\ \E i \in (prev.len + 1)..cur.len : buf[i] = [k |-> "thread", v |-> "t2"]

\* C16: once the sink of a client exists, every step leaves the lines already in
\* its log in place: the log only grows, also when the handle is closed or reopened.
C16_LogAppendOnly ==
    [][sink # "none" =>
          /\ Len(buf') >= Len(buf)
          /\ SubSeq(buf', 1, Len(buf)) = buf]_vars

\* the handle was reopened for reading after a read, and the engine wrote since
C16_Witness ==
    /\ sink = "r"
    /\ cur.op # "none" /\ cur.len >= 1
    /\ Len(buf) > cur.len

\* C17: of two successive reads of the decrypt-marker count of a log, the later
\* is not below the earlier.
C17_CountMonotonic ==
    (prev.op = "count" /\ cur.op = "count") => prev.n <= cur.n

\* two successive counts between which a marker line was written
C17_Witness ==
    /\ prev.op = "count" /\ cur.op = "count"
    /\ prev.n = 1 /\ cur.n = 2

\* C13: when both thread creations were in Alice's log at the extraction, the
\* identifier the channel-kick script selects before the 'Channel 2' messages is
\* that of the thread created in channel 2 and differs from the one it selects
\* before the 'Channel 1' messages.
C13_Channel2ThreadIsItsOwn ==
    (thr.pc = "done" /\ thr.seen = 2) =>
        (thr.used2 = "t2" /\ thr.used2 # thr.used1)

\* C19: two drivers that run different scripts at the same time use no common
\* port, key file or log file, and the purge of a starting driver deletes no file
\* of the running one.
C19_ConcurrentRunsIsolated ==
    \A a, b \in DOMAIN iso.run :
       iso.run[a].s # iso.run[b].s =>
          /\ (iso.run[a].phase = "running" /\ iso.run[b].phase = "running") =>
                /\ Ports(iso.run[a].s) \cap Ports(iso.run[b].s) = {}
                /\ KeyFiles(iso.run[a].s) \cap KeyFiles(iso.run[b].s) = {}
                /\ LogFiles(iso.run[a].s) \cap LogFiles(iso.run[b].s) = {}
          /\ iso.lost = {}

\* C21: no step of the finally block changes the exit code, the verdict or the
\* score the try block left: they are the same whether the clients exited on
\* terminate() or had to be killed after the timeout.
C21_TeardownKeepsVerdict ==
    [][pc = "teardown" =>
          (rc' = rc /\ verdict' = verdict /\ exc' = exc /\ passed' = passed /\ total' = total)]_vars

\* a run that scored Success and exits 0 after a client had to be killed
C21_Witness ==
    /\ pc = "done" /\ exc = "none"
    /\ Classify(verdict) = "Success" /\ rc = 0
    /\ \E c \in ClientSet(scen) : killSent[c]

\* C22: no find or check raises, and one whose pattern matches no line of the
\* log it read (an empty or missing log included) returns absent / false.
C22_AbsenceIsAValue ==
    /\ cur.op # "raised"
    /\ (cur.op \in {"find", "check"} /\ ~\E i \in 1..cur.len : Matches(buf[i], cur.pat))
          => cur.res = (IF cur.op = "find" THEN "absent" ELSE "false")

\* C23: the two-party scripts report Success only if Bob's log has the text of
\* Alice's first message, Bob's decrypt count is at least 3 and Alice's log has
\* the text of Bob's reply.
C23_RoundTripSuccess ==
    [][(AtStep("score") /\ scen \in {"bidirectional", "e2ee"}
        /\ Classify(verdict') = "Success") =>
          /\ {"bob_got_hello", "bob_decrypts", "alice_got_reply"} \subseteq DOMAIN memo
          /\ memo["bob_got_hello"]
          /\ memo["bob_decrypts"] >= 3
          /\ memo["alice_got_reply"]]_vars

\* test-e2ee.py about to print its banner with the four conditions true
C23_Witness ==
    /\ AtStep("score") /\ scen = "e2ee"
    /\ {"bob_got_hello", "bob_decrypts", "alice_got_reply", "alice_decrypts"} \subseteq DOMAIN memo
    /\ memo["bob_got_hello"] /\ memo["alice_got_reply"]
    /\ memo["bob_decrypts"] = 3 /\ memo["alice_decrypts"] = 1

\* C24: when the driver is about to write a command and the last command it
\* wrote was a member add or a kick, it slept 5 to 7 seconds in that run_command
\* and 4 to 10 seconds of time.sleep since.
C24_RotationWait ==
    (AtStep("cmd") /\ CondHolds(Cur) /\ since.cmd \in {"member add", "kick"}) =>
        (settle \in 5..7 /\ since.extra \in 4..10)

\* C25: every call of run_command that returned slept the whole wait it was
\* given, also when the write failed.
C25_SettleFollowsSend ==
    (pc = "body" /\ last.kind \in {"cmd", "sendfail"}) =>
        (ip > 1 /\ settle = Script(scen)[ip - 1].wait)

\* C26: the assertion phase follows the action phase: no command is written to
\* a client once the first assertion of the run has been evaluated.
C26_NoCommandAfterAssertion ==
    (pc = "body" /\ last.kind = "cmd") => evaluated = << >>

\* C27: no command with an absent channel or thread identifier in it is written,
\* and a statement skipped because its identifier is absent is followed by the
\* next statement of the script (unless the run is interrupted or a client exits).
C27_AbsentRowsTolerated ==
    /\ [](last.kind = "cmd" => last.bad \cap {"channel_id", "thread_id"} = {})
    /\ [][(pc = "body" /\ Cur.op \in {"cmd", "find"} /\ ~CondHolds(Cur)) =>
             \/ pc' = "body" /\ ip' = ip + 1 /\ last'.kind = "skip" /\ written' = written
             \/ exc' # exc
             \/ crashes' # crashes]_vars

\* Bob's selects were skipped in test-bidirectional.py and his send comes next
C27_Witness ==
    /\ scen = "bidirectional" /\ pc = "body"
    /\ last.kind = "skip" /\ last.c = "Bob"
    /\ Cur.op = "cmd" /\ Cur.cmd = "send" /\ Cur.c = "Bob"

\* C28: in every script that removes a member the 'kick succeeded' assertion
\* passes exactly when the remover's log has 'Successfully removed user' or
\* 'MLS keys rotated' or, in any letter case, 'removed member can't decrypt'.
C28_OneRemovalPredicate ==
    conf.phase = "asserted" =>
        (conf.ok <=> \/ "Successfully removed user" \in conf.lines
                     \/ "MLS keys rotated" \in conf.lines
                     \/ \E l \in conf.lines : Lower(l) = "removed member can't decrypt")

\* C29: when the first engine of a run is spawned, no key file, history file,
\* state directory or log left by an earlier run of the script exists.
C29_PurgedBeforeStart ==
    [][\A r \in Runs :
          (iso.run[r].phase = "purged" /\ iso'.run[r].phase = "running")
              => iso.stale \cap RunFiles(iso.run[r].s) = {}]_vars

C29_Witness ==
    \E r \in Runs :
        /\ iso.run[r].phase = "running"
        /\ iso.run[r].old
        /\ iso.run[r].s = "four_members_kick"
        /\ iso.stale = {}

\* C30: the outcome of a marker count and of a text containment test is the
\* same for every order of the lines of the log that was read.
C30_OrderOfLinesIrrelevant ==
    LET n == Len(buf)
        Orders == {p \in [1..n -> 1..n] : \A i, j \in 1..n : p[i] = p[j] => i = j}
        Reordered(p) == [i \in 1..n |-> buf[p[i]]]
    IN  /\ (cur.op = "count" /\ cur.len = n)
            => \A p \in Orders : CountMarkers(Reordered(p)) = cur.n
        /\ (cur.op = "check" /\ cur.len = n)
            => \A p \in Orders : CheckLog(Reordered(p), cur.pat) = cur.res

C30_Witness ==
    /\ cur.op = "check" /\ cur.res = "true"
    /\ cur.len = Len(buf) /\ Len(buf) = MaxLines
    /\ Matches(buf[1], cur.pat)
    /\ ~Matches(buf[Len(buf)], cur.pat)

\* C31: a client has one process and one log for its whole life and moves only
\* forward: not started, alive, asked to terminate, exited.  A process that was
\* started is never started again, a log that was opened is never opened for
\* writing again, and no command is written once terminate() was called.
C31_LifecycleForward ==
    /\ [](\A c \in AllClients : termSent[c] => pc \in {"teardown", "done"})
    /\ [][/\ \A c \in AllClients :
                /\ proc[c] = "alive" => proc'[c] \in {"alive", "exited"}
                /\ proc[c] = "exited" => proc'[c] = "exited"
                /\ handle[c] # "none" => handle'[c] # "none"
                /\ handle[c] \in {"closed", "r"} => handle'[c] # "w"
                /\ termSent[c] => termSent'[c]
                /\ killSent[c] => killSent'[c]
          /\ pc \in {"teardown", "done"} => (written' = written /\ last' = last)]_vars

C31_Witness ==
    /\ pc = "done" /\ tpc = "end" /\ scen = "permissions"
    /\ crashes = 1
    /\ \A c \in ClientSet(scen) :
          written[c] /\ termSent[c] /\ proc[c] = "exited" /\ handle[c] = "closed"
    /\ \E c \in ClientSet(scen) : killSent[c]

C33_ScoreBookkeeping ==
    /\ [](verdict # "none" =>
            /\ passed + failed = Len(evaluated)
            /\ total = Len(evaluated)
            /\ 0 <= passed /\ passed <= total
            /\ passed = total <=> failed = 0)
    /\ [][evaluated' # evaluated =>
            \/ passed' = passed + 1 /\ failed' = failed
            \/ passed' = passed /\ failed' = failed + 1]_vars

C33_Witness ==
    /\ verdict # "none" /\ scen = "permissions"
    /\ passed = 3 /\ failed = 1 /\ total = 4

\* C34: a kick script whose removed member's log holds the message sent after
\* the removal does not return 0 from its scoring step.
C34_BreachNeverExitsZero ==
    [][(AtStep("score") /\ verdict' # "none"
        /\ scen \in {"three_members_kick", "four_members_kick"}
        /\ "bob_got_after_kick" \in DOMAIN memo /\ memo["bob_got_after_kick"])
          => rc' # 0]_vars

\* C35: the predicates on one client's log are evaluated on one snapshot of it:
\* a count of the decrypt markers and the containment check read right after it
\* saw the same content, so a marker is found exactly when the count was not 0.
C35_OneSnapshotPerPhase ==
    (prev.op = "count" /\ cur.op = "check")
        => /\ cur.len = prev.len
           /\ cur.pat = "Decrypted MLS message" => (cur.res = "true" <=> prev.n > 0)

\* C36: a check made right after a command is true only if a matching line was
\* written after the command: the refusal the script looks for after Charlie's
\* 'channel create' is found only if it came after that command.
C36_CheckReflectsCommand ==
    (perm.phase = "asserted" /\ perm.denied) =>
        \E i \in (perm.cmdAt + 1)..Len(perm.log) :
            Matches(perm.log[i], "permission|denied|not allowed|cannot")

\* C37: 'Member blocked from creating channels' passes only if Charlie's log has
\* no 'Created channel' line after his 'channel create' command.
C37_BlockedMeansNotCreated ==
    (perm.phase = "asserted" /\ perm.ok) =>
        \A i \in (perm.cmdAt + 1)..Len(perm.log) : ~Matches(perm.log[i], "Created channel")

\* C38: 'All spaces listed correctly' of test-space-modes.py passes exactly when
\* the names of all three spaces are in Alice's log: MLSTestSpace, and
\* LightweightTest and ExplicitMLS, which are in the log when their ids were found.
C38_AllSpacesListed ==
    [][(scen = "space_modes" /\ AtStep("assert") /\ Cur.n = 6 /\ evaluated' # evaluated) =>
          (passed' = passed + 1 <=>
              /\ memo'["mls_name_in_log"]
              /\ ids["light_space_id"] = "present"
              /\ ids["explicit_mls_id"] = "present")]_vars

\* C39: once the finally block was entered, a timeout or a failure in stopping
\* one client keeps no other client from being stopped: when the driver has
\* exited, terminate() was called on every started client and none is alive,
\* except the one whose stopping failed.
C39_StopsAreIndependent ==
    (pc = "done" /\ tpc # "none") =>
        \A c \in ClientSet(scen) :
            \/ proc[c] = "none"
            \/ termSent[c] /\ proc[c] # "alive"
            \/ termSent[c] /\ tpc = "raised" /\ c = Tc

\* C40: stop() of a SpacewayClient does not raise, also before start() and when
\* called again, and after any calls of start() and stop() that end with stop()
\* no process the object spawned is alive and its log handle is closed.
C40_StopAfterAnyCalls ==
    cli.op \in {"stop", "kill"} =>
        /\ ~cli.raised
        /\ \A i \in 1..Len(cli.procs) : cli.procs[i] # "alive"
        /\ cli.log_handle # 0 => cli.handles[cli.log_handle] = "closed"

====
